---- MODULE Spec2Model ----
(***************************************************************************)
(* Verification model of the ESG report repository's ingestion, index and  *)
(* chat-session code:                                                      *)
(*   - the sentence chunker of vector_database/vector_database.py,         *)
(*   - the chat route and its in-memory session store                      *)
(*     (backend/app/api/routes/chat.py, services/mistral_client.py),       *)
(*   - document upload / delete against the Weaviate index                 *)
(*     (backend/app/api/routes/documents.py, services/weaviate_client.py,  *)
(*     services/document_processor.py),                                    *)
(*   - the FAISS database of vector_database/vector_database.py: building, *)
(*     saving, loading and searching the index,                            *)
(*   - the sources and the context of a chat answer,                       *)
(*   - the searches of services/weaviate_client.py and of the routes of    *)
(*     backend/app/api/routes/search.py, with the scores they report,      *)
(*   - the question sequence of src/agents/conversation_agent.py.          *)
(* Strings are sequences of one-character strings.                         *)
(***************************************************************************)
EXTENDS Integers, Sequences, FiniteSets, TLC

VARIABLES
    \* ---- chunker (ESGFAISSVectorDatabase) ----
    text,            \* argument of intelligent_chunk_text
    chunk_size,      \* self.chunk_size
    chunk_overlap,   \* self.chunk_overlap
    packed,          \* local `chunks` before overlap is applied (line 152)
    chunks,          \* value returned by intelligent_chunk_text
    rechunks,        \* value returned by a second call on the same text
    cpc,             \* "ready" before the call, "done" after it returned, "again"
                     \* after the second call returned
    \* ---- chat route (backend/app/api/routes/chat.py) ----
    chat_sessions,   \* the module-level dict session id -> list of ChatMessage
    req,             \* the chat coroutines: position and locals of each
    nextMsg,         \* number of the next chat request (its message text)
    succeeded,       \* per session: requests answered with a ChatResponse
                     \* since the session was last cleared
    reply,           \* the answer, when the latest request was one to the
                     \* history, clear, list, summarize or feedback route
    \* ---- documents route and Weaviate index ----
    index,           \* the Document class of Weaviate: uuid -> object
    nextDoc,         \* number of the next document (its uuid4 document_id)
    uploads,         \* per document_id: what upload_document did and answered
    deleted,         \* document ids for which delete_document returned True
    search_results,  \* the result list, when the latest request was a search
    \* ---- FAISS database (ESGFAISSVectorDatabase) and its index directory ----
    model,           \* self.model: TRUE when the embedding model is loaded
    faiss_index,     \* self.index: NoIndex, or the vectors the index holds
    texts,           \* self.texts
    metadata,        \* self.metadata
    disk,            \* the four files of index_directory
    ret,             \* the latest call of the database and what it returned
    runs,            \* number of process_text_files calls so far
    \* ---- a chat request that succeeds: retrieval, context, sources ----
    retrieved,       \* search_results: what hybrid_search returned (line 49)
    context,         \* what _build_context put into the generation request
    sources,         \* the sources of the ChatResponse (lines 72-80)
    spc,             \* "ready" before the request, "done" after its answer
    \* ---- process_document taken alone ----
    text_chunks,     \* what chunk_text returned (line 139)
    processed_chunks,\* the list process_document returns
    ppc,             \* "ready" before the call, "done" after it returned
    \* ---- the event loop of the backend ----
    clear_requests,  \* session ids of the clear requests received so far
    \* ---- search: the Document class as a query sees it, the FAISS index ----
    corpus,          \* per object: its BM25 score and its distance for the query
    found,           \* the latest search and what it returned
    \* ---- ConversationAgent ----
    current_question_index,  \* self.current_question_index
    current_question,        \* self.current_question: a position of the bank, or NoQuestion
    current_topic,           \* self.current_topic
    knowledge_collected,     \* self.knowledge_collected
    agent_ret                \* the latest call of the agent and what it returned

chunkVars == <<text, chunk_size, chunk_overlap, packed, chunks, rechunks, cpc>>
chatVars == <<chat_sessions, req, nextMsg, succeeded, reply>>
indexVars == <<index, nextDoc, uploads, deleted, search_results>>
faissVars == <<model, faiss_index, texts, metadata, disk, ret, runs>>

sourceVars == <<retrieved, context, sources, spc>>

processVars == <<text_chunks, processed_chunks, ppc>>

loopVars == <<clear_requests>>

searchVars == <<corpus, found>>

agentVars == <<current_question_index, current_question, current_topic,
               knowledge_collected, agent_ret>>

vars == <<chunkVars, chatVars, indexVars, faissVars, sourceVars, processVars,
          loopVars, searchVars, agentVars>>

----------------------------------------------------------------------------
(* Bounds of the model *)

MaxTextLen == 5
MaxChunkSize == 3
MaxOverlap == 2
MaxRequests == 3      \* chat requests issued in one run
MaxPriorTurns == 5    \* completed turns of session "s1" before the run starts
MaxDocs == 2          \* documents uploaded in one run
MaxChunks == 2        \* chunks the text splitter returns for one document
MaxSplit == 4         \* the same, where process_document is taken alone
MaxTexts == 1         \* chunks the files of docs_directory hold together
MaxRuns == 2          \* process_text_files calls in one run
MaxK == 2             \* the k of a FAISS search
MaxPool == 4          \* chunks the retrieval of a chat request can choose from
MaxScore == 2         \* the BM25 score of an object for the query
MaxDist == 1          \* the distance of an object's vector to the query
MaxQuestions == 2     \* questions of one topic of the question bank

----------------------------------------------------------------------------
(* Strings *)

Min(a, b) == IF a <= b THEN a ELSE b
Max(a, b) == IF a >= b THEN a ELSE b

\* Letters, sentence terminators [.!?] and whitespace \s
Letters == {"a", "b"}
Terminators == {"."}
Whitespace == {" "}
Alphabet == Letters \cup Terminators \cup Whitespace

Strings(n) == UNION {[1..k -> Alphabet] : k \in 0..n}

\* s[-n:] for n > 0
LastN(s, n) == IF Len(s) <= n THEN s ELSE SubSeq(s, Len(s) - n + 1, Len(s))
\* s[:n]
FirstN(s, n) == SubSeq(s, 1, Min(n, Len(s)))

\* str.strip()
RECURSIVE LStrip(_)
LStrip(s) == IF s # <<>> /\ Head(s) \in Whitespace THEN LStrip(Tail(s)) ELSE s
RECURSIVE RStrip(_)
RStrip(s) ==
    IF s # <<>> /\ s[Len(s)] \in Whitespace THEN RStrip(SubSeq(s, 1, Len(s) - 1)) ELSE s
Strip(s) == RStrip(LStrip(s))

\* re.sub(r'\s+', ' ', s): every run of whitespace becomes one space
RECURSIVE CollapseWhitespace(_)
CollapseWhitespace(s) ==
    IF s = <<>> THEN <<>>
    ELSE IF Head(s) \in Whitespace
         THEN <<" ">> \o CollapseWhitespace(LStrip(s))
         ELSE <<Head(s)>> \o CollapseWhitespace(Tail(s))

\* index of the last character of the run of characters of set S starting at i
RECURSIVE RunEnd(_, _, _)
RunEnd(s, i, S) == IF i < Len(s) /\ s[i + 1] \in S THEN RunEnd(s, i + 1, S) ELSE i

\* re.split(r'[.!?]+(?:\s+|$)', s): a run of terminators is a separator only
\* when whitespace or the end of the string follows it; the pieces between
\* separators are returned, the last one included even when it is empty.
RECURSIVE SplitFrom(_, _, _)
SplitFrom(s, i, cur) ==
    IF i > Len(s) THEN <<cur>>
    ELSE IF s[i] \in Terminators
         THEN LET j == RunEnd(s, i, Terminators) IN
              IF j = Len(s) THEN <<cur, <<>> >>
              ELSE IF s[j + 1] \in Whitespace
                   THEN <<cur>> \o SplitFrom(s, RunEnd(s, j + 1, Whitespace) + 1, <<>>)
                   ELSE SplitFrom(s, j + 1, cur \o SubSeq(s, i, j))
         ELSE SplitFrom(s, i + 1, cur \o <<s[i]>>)
ReSplitSentences(s) == SplitFrom(s, 1, <<>>)

\* [x.strip() for x in xs if x.strip()]
RECURSIVE StripNonEmpty(_)
StripNonEmpty(xs) ==
    IF xs = <<>> THEN <<>>
    ELSE IF Strip(Head(xs)) # <<>>
         THEN <<Strip(Head(xs))>> \o StripNonEmpty(Tail(xs))
         ELSE StripNonEmpty(Tail(xs))

\* str.split(): the maximal runs of non-whitespace characters
RECURSIVE WordsFrom(_, _, _)
WordsFrom(s, i, cur) ==
    IF i > Len(s) THEN (IF cur = <<>> THEN <<>> ELSE <<cur>>)
    ELSE IF s[i] \in Whitespace
         THEN (IF cur = <<>> THEN <<>> ELSE <<cur>>) \o WordsFrom(s, i + 1, <<>>)
         ELSE WordsFrom(s, i + 1, cur \o <<s[i]>>)
SplitWords(s) == WordsFrom(s, 1, <<>>)

----------------------------------------------------------------------------
(* intelligent_chunk_text and _apply_chunk_overlap *)

\* x + (" " if x else "") + y
JoinSpace(x, y) == x \o (IF x # <<>> THEN <<" ">> ELSE <<>>) \o y

\* The word loop (lines 135-146). st = [chunks, temp_chunk].
RECURSIVE PackWords(_, _, _)
PackWords(words, st, size) ==
    IF words = <<>> THEN st
    ELSE LET word == Head(words) IN
         IF Len(st.temp_chunk) + 1 + Len(word) <= size
         THEN PackWords(Tail(words),
                        [st EXCEPT !.temp_chunk = JoinSpace(st.temp_chunk, word)], size)
         ELSE PackWords(Tail(words),
                        [chunks |-> IF st.temp_chunk # <<>>
                                    THEN Append(st.chunks, st.temp_chunk)
                                    ELSE st.chunks,
                         temp_chunk |-> word], size)

\* The sentence loop (lines 118-152). st = [chunks, current_chunk].
RECURSIVE PackSentences(_, _, _)
PackSentences(sentences, st, size) ==
    IF sentences = <<>>
    THEN IF st.current_chunk # <<>> THEN Append(st.chunks, st.current_chunk) ELSE st.chunks
    ELSE LET sentence == Head(sentences)
             potential_chunk == JoinSpace(st.current_chunk, sentence)
             saved == IF st.current_chunk # <<>>
                      THEN Append(st.chunks, st.current_chunk)
                      ELSE st.chunks
         IN  IF Len(potential_chunk) <= size
             THEN PackSentences(Tail(sentences),
                                [st EXCEPT !.current_chunk = potential_chunk], size)
             ELSE IF Len(sentence) > size
                  THEN LET w == PackWords(SplitWords(sentence),
                                          [chunks |-> saved, temp_chunk |-> <<>>], size)
                       IN  PackSentences(Tail(sentences),
                                         [chunks |-> w.chunks,
                                          current_chunk |-> w.temp_chunk], size)
                  ELSE PackSentences(Tail(sentences),
                                     [chunks |-> saved, current_chunk |-> sentence], size)

\* Lines 106-152: the chunks before overlap
BoundaryChunks(t, size) ==
    IF t = <<>> \/ Strip(t) = <<>> THEN <<>>
    ELSE PackSentences(StripNonEmpty(ReSplitSentences(CollapseWhitespace(Strip(t)))),
                       [chunks |-> <<>>, current_chunk |-> <<>>], size)

\* Line 180 changed to take the leading characters of the previous chunk
OverlapTextHead(prev_chunk, overlap) ==
    IF Len(prev_chunk) > overlap THEN FirstN(prev_chunk, overlap) ELSE prev_chunk

\* Line 180: prev_chunk[-overlap:] if len(prev_chunk) > overlap else prev_chunk
OverlapText(prev_chunk, overlap) ==
    IF Len(prev_chunk) > overlap THEN LastN(prev_chunk, overlap) ELSE prev_chunk

\* _apply_chunk_overlap
ApplyChunkOverlap(cs, overlap) ==
    IF Len(cs) <= 1 THEN cs
    ELSE [i \in 1..Len(cs) |->
            IF i = 1 THEN cs[1]
            ELSE OverlapText(cs[i - 1], overlap) \o <<" ">> \o cs[i]]

\* intelligent_chunk_text
IntelligentChunkText(t, size, overlap) ==
    LET cs == BoundaryChunks(t, size) IN
    IF overlap > 0 /\ Len(cs) > 1 THEN ApplyChunkOverlap(cs, overlap) ELSE cs

\* One call of intelligent_chunk_text(text) that also assigns self.chunk_size
ChunkCallShrinking ==
    /\ cpc = "ready"
    /\ packed' = BoundaryChunks(text, chunk_size)
    /\ chunks' = IntelligentChunkText(text, chunk_size, chunk_overlap)
    /\ chunk_size' = Max(1, chunk_size - 1)
    /\ cpc' = "done"
    /\ UNCHANGED <<text, chunk_overlap, rechunks>>
    /\ UNCHANGED <<chatVars, indexVars, faissVars, sourceVars, processVars, loopVars, searchVars, agentVars>>

\* One call of intelligent_chunk_text(text)
ChunkCall ==
    /\ cpc = "ready"
    /\ packed' = BoundaryChunks(text, chunk_size)
    /\ chunks' = IntelligentChunkText(text, chunk_size, chunk_overlap)
    /\ cpc' = "done"
    /\ UNCHANGED <<text, chunk_size, chunk_overlap, rechunks>>
    /\ UNCHANGED <<chatVars, indexVars, faissVars, sourceVars, processVars, loopVars, searchVars, agentVars>>

\* A second call of intelligent_chunk_text(text) on the same object
ChunkAgain ==
    /\ cpc = "done"
    /\ rechunks' = IntelligentChunkText(text, chunk_size, chunk_overlap)
    /\ cpc' = "again"
    /\ UNCHANGED <<text, chunk_size, chunk_overlap, packed, chunks>>
    /\ UNCHANGED <<chatVars, indexVars, faissVars, sourceVars, processVars, loopVars, searchVars, agentVars>>

----------------------------------------------------------------------------
(* The chat route: chat(), clear_chat_session() and the session store.      *)
(* A coroutine may be descheduled at each await (hybrid_search at line 49,   *)
(* generate_rag_response at line 58); the code between two awaits runs       *)
(* without interruption on the event loop.                                   *)

SessionIds == {"s1", "s2"}
NoSessionId == "None"         \* request.session_id absent
Slots == {1, 2}               \* chat coroutines that can be in flight together

\* "[-10:]" at chat.py line 45 and mistral_client.py line 106
HistoryWindow == 10

\* content of the system prompt message
SystemPromptText == 0

\* ChatMessage(role=..., content=...); timestamp = datetime.now(), here the
\* number of messages the session held when the message was created
ChatMessage(role, content, now) == [role |-> role, content |-> content, timestamp |-> now]

\* {"role": msg.role, "content": msg.content}  (chat.py line 44)
ToDict(msg) == [role |-> msg.role, content |-> msg.content]

\* xs[-10:] changed to xs[:10]
FirstWindow(xs) == SubSeq(xs, 1, Min(HistoryWindow, Len(xs)))

\* xs[-10:]
LastWindow(xs) == SubSeq(xs, Max(1, Len(xs) - HistoryWindow + 1), Len(xs))

\* chat.py lines 40-46
ChatHistory(sessions, session_id, use_history) ==
    IF use_history /\ session_id \in DOMAIN sessions
    THEN LET w == LastWindow(sessions[session_id]) IN [i \in 1..Len(w) |-> ToDict(w[i])]
    ELSE <<>>

\* mistral_client.py lines 101-110: the messages of the generation request
RagMessages(user_question, chat_history) ==
    <<[role |-> "system", content |-> SystemPromptText]>>
    \o (IF chat_history # <<>> THEN LastWindow(chat_history) ELSE <<>>)
    \o <<[role |-> "user", content |-> user_question]>>

\* chat.py line 69 with the user message stored alone
ExtendUserOnly(stored, user_message, assistant_message) ==
    Append(stored, user_message)

\* chat.py line 69 as an assignment of a fresh two-element list
ExtendReplacing(stored, user_message, assistant_message) ==
    <<user_message, assistant_message>>

\* chat.py line 69 with the new pair put in front of the list
ExtendInFront(stored, user_message, assistant_message) ==
    <<user_message, assistant_message>> \o stored

\* chat.py line 69: chat_sessions[session_id].extend([user_message, assistant_message])
ExtendSession(stored, user_message, assistant_message) ==
    stored \o <<user_message, assistant_message>>

\* the answer of a route other than chat
Reply(op, session_id, status, messages) ==
    [op |-> op, session_id |-> session_id, status |-> status, messages |-> messages]
NoReply == Reply("none", NoSessionId, "none", <<>>)

\* the locals of a coroutine that is not running
IdleReq == [pc |-> "idle", session_id |-> NoSessionId, message |-> 0,
            use_history |-> FALSE, chat_history |-> <<>>, messages |-> <<>>,
            response |-> "none"]

\* a coroutine that returned: "ok" for a ChatResponse (lines 82-86), "error"
\* for the HTTPException of line 90
Returned(status) == [IdleReq EXCEPT !.response = status]

\* The list session "s1" holds after p sequential successful turns, numbered
\* MaxPriorTurns - p + 1 .. MaxPriorTurns (chat.py lines 66-69, p times)
PriorMessages(p) ==
    [i \in 1..(2 * p) |->
        ChatMessage(IF i % 2 = 1 THEN "user" ELSE "assistant",
                    MaxPriorTurns - p + ((i + 1) \div 2),
                    2 * ((i - 1) \div 2))]

\* session ids in use by a stored session or by a coroutine in flight
UsedSessionIds == DOMAIN chat_sessions \cup {req[k].session_id : k \in Slots}

\* chat() lines 31-49: up to the await of hybrid_search. The coroutines are
\* interchangeable, so a new request takes the first one that is not running.
ChatStart(k, sid_in, use_history) ==
    /\ req[k].pc = "idle"
    /\ \A j \in Slots : j < k => req[j].pc # "idle"
    /\ nextMsg <= MaxPriorTurns + MaxRequests
    /\ \E session_id \in SessionIds :
          /\ IF sid_in # NoSessionId
             THEN session_id = sid_in
             ELSE session_id \notin UsedSessionIds       \* str(uuid.uuid4())
          /\ LET sessions == IF session_id \in DOMAIN chat_sessions
                              THEN chat_sessions
                              ELSE [s \in DOMAIN chat_sessions \cup {session_id} |->
                                      IF s = session_id THEN <<>> ELSE chat_sessions[s]]
             IN  /\ chat_sessions' = sessions
                 /\ req' = [req EXCEPT ![k] =
                        [pc |-> "search", session_id |-> session_id, message |-> nextMsg,
                         use_history |-> use_history,
                         chat_history |-> ChatHistory(sessions, session_id, use_history),
                         messages |-> <<>>, response |-> "none"]]
    /\ nextMsg' = nextMsg + 1
    /\ reply' = NoReply
    /\ UNCHANGED succeeded
    /\ UNCHANGED <<chunkVars, indexVars, faissVars, sourceVars, processVars, loopVars, searchVars, agentVars>>

\* hybrid_search returned; generate_rag_response builds its messages and the
\* coroutine awaits the generation (lines 55-58, mistral_client.py 94-113)
SearchReturns(k) ==
    /\ req[k].pc = "search"
    /\ req' = [req EXCEPT ![k].pc = "generate",
                           ![k].messages = RagMessages(req[k].message, req[k].chat_history)]
    /\ reply' = NoReply
    /\ UNCHANGED <<chat_sessions, nextMsg, succeeded>>
    /\ UNCHANGED <<chunkVars, indexVars, faissVars, sourceVars, processVars, loopVars, searchVars, agentVars>>

\* hybrid_search raised: except at lines 88-90, HTTP 500
SearchRaises(k) ==
    /\ req[k].pc = "search"
    /\ req' = [req EXCEPT ![k] = Returned("error")]
    /\ reply' = NoReply
    /\ UNCHANGED <<chat_sessions, nextMsg, succeeded>>
    /\ UNCHANGED <<chunkVars, indexVars, faissVars, sourceVars, processVars, loopVars, searchVars, agentVars>>

\* the generation returned: lines 65-86. Line 69 raises KeyError when the
\* session was deleted meanwhile, which ends in the except at lines 88-90.
GenerateReturns(k) ==
    /\ req[k].pc = "generate"
    /\ LET sid == req[k].session_id IN
       IF sid \in DOMAIN chat_sessions
       THEN LET now == Len(chat_sessions[sid])
                user_message == ChatMessage("user", req[k].message, now)
                assistant_message == ChatMessage("assistant", req[k].message, now)
            IN  /\ chat_sessions' =
                     [chat_sessions EXCEPT ![sid] =
                        ExtendSession(chat_sessions[sid], user_message, assistant_message)]
                /\ succeeded' = [succeeded EXCEPT ![sid] = @ \cup {req[k].message}]
                /\ req' = [req EXCEPT ![k] = Returned("ok")]
       ELSE /\ UNCHANGED <<chat_sessions, succeeded>>
            /\ req' = [req EXCEPT ![k] = Returned("error")]
    /\ reply' = NoReply
    /\ UNCHANGED nextMsg
    /\ UNCHANGED <<chunkVars, indexVars, faissVars, sourceVars, processVars, loopVars, searchVars, agentVars>>

\* the generation raised: except at lines 88-90, HTTP 500
GenerateRaises(k) ==
    /\ req[k].pc = "generate"
    /\ req' = [req EXCEPT ![k] = Returned("error")]
    /\ reply' = NoReply
    /\ UNCHANGED <<chat_sessions, nextMsg, succeeded>>
    /\ UNCHANGED <<chunkVars, indexVars, faissVars, sourceVars, processVars, loopVars, searchVars, agentVars>>

\* del chat_sessions[session_id] changed to chat_sessions.clear()
RemoveAllSessions(sessions, sid) == <<>>

\* chat.py line 141: del chat_sessions[session_id]
RemoveSession(sessions, sid) == [s \in DOMAIN sessions \ {sid} |-> sessions[s]]

\* clear_chat_session(session_id), lines 139-144
ClearChatSession(sid) ==
    /\ IF sid \in DOMAIN chat_sessions
       THEN /\ chat_sessions' = RemoveSession(chat_sessions, sid)
            /\ succeeded' = [succeeded EXCEPT ![sid] = {}]
            /\ reply' = Reply("clear", sid, "cleared", <<>>)
       ELSE /\ UNCHANGED <<chat_sessions, succeeded>>
            /\ reply' = Reply("clear", sid, "not_found", <<>>)
    /\ clear_requests' = clear_requests \ {sid}
    /\ UNCHANGED <<req, nextMsg>>
    /\ UNCHANGED <<chunkVars, indexVars, faissVars, sourceVars, processVars, searchVars, agentVars>>

\* A clear request for session sid is received; the event loop calls its
\* handler when it is free
ClearArrives(sid) ==
    /\ clear_requests' = clear_requests \cup {sid}
    /\ UNCHANGED <<chatVars, chunkVars, indexVars, faissVars, sourceVars, processVars,
                   searchVars, agentVars>>

\* the awaits of chat() as if the awaited calls handed control to the loop
AwaitSuspendsAlways == TRUE

\* Whether an await of chat() hands control to the event loop. hybrid_search
\* (weaviate_client.py lines 154-191) and generate_rag_response with
\* generate_response (mistral_client.py lines 50-69 and 94-119) make their
\* requests through the synchronous clients and hold no await that yields: a
\* coroutine that awaits them runs on without giving way.
AwaitSuspends == FALSE

\* the event loop is free to call a handler
LoopFree == AwaitSuspends \/ \A k \in Slots : req[k].pc = "idle"

\* the loop calls chat() for a request it received
HandleChat(k, sid_in, use_history) == LoopFree /\ ChatStart(k, sid_in, use_history)

\* the loop calls clear_chat_session() for a request it received
HandleClear(sid) == sid \in clear_requests /\ LoopFree /\ ClearChatSession(sid)

\* msg as the history route returns it (lines 109-113)
HistoryEntry(msg) == [role |-> msg.role, content |-> msg.content, timestamp |-> msg.timestamp]

\* get_chat_history with chat_sessions.setdefault(session_id, []) for the lookup
GetChatHistoryCreating(sid) ==
    /\ reply' = Reply("history", sid, "ok",
                      IF sid \notin DOMAIN chat_sessions THEN <<>>
                      ELSE [i \in 1..Len(chat_sessions[sid]) |->
                               HistoryEntry(chat_sessions[sid][i])])
    /\ chat_sessions' = [s \in DOMAIN chat_sessions \cup {sid} |->
                            IF s \in DOMAIN chat_sessions THEN chat_sessions[s] ELSE <<>>]
    /\ UNCHANGED <<req, nextMsg, succeeded>>
    /\ UNCHANGED <<chunkVars, indexVars, faissVars, sourceVars, processVars, loopVars, searchVars, agentVars>>

\* get_chat_history(session_id), lines 104-121
GetChatHistory(sid) ==
    /\ reply' = Reply("history", sid, "ok",
                      IF sid \notin DOMAIN chat_sessions THEN <<>>
                      ELSE [i \in 1..Len(chat_sessions[sid]) |->
                               HistoryEntry(chat_sessions[sid][i])])
    /\ UNCHANGED <<chat_sessions, req, nextMsg, succeeded>>
    /\ UNCHANGED <<chunkVars, indexVars, faissVars, sourceVars, processVars, loopVars, searchVars, agentVars>>

\* list_chat_sessions(), lines 159-171: per session its message count
ListChatSessions ==
    /\ reply' = Reply("list", NoSessionId, "ok",
                      [s \in DOMAIN chat_sessions |-> Len(chat_sessions[s])])
    /\ UNCHANGED <<chat_sessions, req, nextMsg, succeeded>>
    /\ UNCHANGED <<chunkVars, indexVars, faissVars, sourceVars, processVars, loopVars, searchVars, agentVars>>

\* summarize_conversation(session_id), lines 189-226. generated: the summary
\* was generated and the session was still there at line 219; otherwise the
\* generation raised, or line 219 raised KeyError after a clear: HTTP 500
SummarizeConversation(sid, generated) ==
    /\ reply' = IF sid \notin DOMAIN chat_sessions \/ chat_sessions[sid] = <<>>
                THEN Reply("summarize", sid, "404", <<>>)
                ELSE IF generated THEN Reply("summarize", sid, "ok", <<>>)
                ELSE Reply("summarize", sid, "500", <<>>)
    /\ UNCHANGED <<chat_sessions, req, nextMsg, succeeded>>
    /\ UNCHANGED <<chunkVars, indexVars, faissVars, sourceVars, processVars, loopVars, searchVars, agentVars>>

\* submit_feedback(session_id, message_index, rating), lines 248-266
SubmitFeedback(sid, message_index, rating) ==
    /\ reply' = IF rating < 1 \/ rating > 5 THEN Reply("feedback", sid, "400", <<>>)
                ELSE IF sid \notin DOMAIN chat_sessions
                THEN Reply("feedback", sid, "404", <<>>)
                ELSE IF message_index >= Len(chat_sessions[sid])
                THEN Reply("feedback", sid, "400", <<>>)
                ELSE Reply("feedback", sid, "ok", <<>>)
    /\ UNCHANGED <<chat_sessions, req, nextMsg, succeeded>>
    /\ UNCHANGED <<chunkVars, indexVars, faissVars, sourceVars, processVars, loopVars, searchVars, agentVars>>

----------------------------------------------------------------------------
(* Document upload, deletion and search against the Weaviate index.         *)
(* upload_document awaits process_document and add_documents, neither of    *)
(* which suspends while it changes the index, so one upload is one step.    *)

\* What an uploaded file can hold
FileContents == {<<>>, <<" ">>, <<" ", "a">>}

\* Chunk texts split_text can hand to process_document: two contents, and a
\* whitespace-only chunk, the case line 146 ("Skip empty chunks") provides for
ChunkStrings == {<<"p">>, <<"q">>, <<" ">>}

\* split_text(text) for a text with content: one chunk or more, at most max.
\* The text was stripped (lines 47, 63, 76), so its first and its last chunk
\* hold content.
SplitsUpTo(max) ==
    {cs \in UNION {[1..n -> ChunkStrings] : n \in 1..max} :
        Strip(cs[1]) # <<>> /\ Strip(cs[Len(cs)]) # <<>>}
SplitResults == SplitsUpTo(MaxChunks)

\* weaviate.util.generate_uuid5(doc["content"]): a name-based uuid, the same
\* for the same content and different for different contents
GenerateUuid5(content) == <<"uuid5", content>>

\* extract_text_from_txt: file.read() then text.strip()
ExtractText(raw) == Strip(raw)

\* document_processor.py line 135 with the check left out
NoTextContentUnchecked(t) == FALSE

\* document_processor.py line 135: not text.strip()
NoTextContent(t) == Strip(t) = <<>>

\* document_processor.py lines 142-160: the chunk records of one document
RECURSIVE ProcessChunks(_, _, _, _)
ProcessChunks(split, i, document_id, total) ==
    IF i > Len(split) THEN <<>>
    ELSE (IF Strip(split[i]) # <<>>
          THEN <<[content |-> Strip(split[i]), document_id |-> document_id,
                  chunk_index |-> i - 1, total_chunks |-> total]>>
          ELSE <<>>)
         \o ProcessChunks(split, i + 1, document_id, total)

\* batch.add_data_object(..., uuid=doc_uuid): an object written under a uuid
\* the class already holds replaces the object stored there
PutObject(idx, uuid, obj) ==
    [u \in DOMAIN idx \cup {uuid} |-> IF u = uuid THEN obj ELSE idx[u]]

\* weaviate_client.py lines 109-131 for the first n documents of the batch
RECURSIVE AddObjects(_, _, _)
AddObjects(idx, docs, n) ==
    IF n = 0 THEN idx
    ELSE PutObject(AddObjects(idx, docs, n - 1), GenerateUuid5(docs[n].content), docs[n])

\* weaviate_client.py lines 296-306 with the filter narrowed to the first chunk
DeleteFirstChunk(idx, document_id) ==
    LET keep == {u \in DOMAIN idx :
                    ~(idx[u].document_id = document_id /\ idx[u].chunk_index = 0)}
    IN  [u \in keep |-> idx[u]]

\* weaviate_client.py lines 296-306: batch delete where document_id Equal id
DeleteObjects(idx, document_id) ==
    LET keep == {u \in DOMAIN idx : idx[u].document_id # document_id}
    IN  [u \in keep |-> idx[u]]

\* get_document_count, lines 317-326
GetDocumentCount == Cardinality(DOMAIN index)

\* the chunk_index values of the chunk records handed to add_documents
ChunkIndexes(processed) == [i \in 1..Len(processed) |-> processed[i].chunk_index]

\* process_document for a text with content, lines 138-168: the chunk records
\* built from what the splitter returned
ProcessDocument ==
    /\ ppc = "ready"
    /\ processed_chunks' = ProcessChunks(text_chunks, 1, nextDoc, Len(text_chunks))
    /\ ppc' = "done"
    /\ UNCHANGED text_chunks
    /\ UNCHANGED <<chunkVars, chatVars, indexVars, faissVars, sourceVars, loopVars, searchVars, agentVars>>

\* upload_document, lines 70-105, for a file holding `raw`. `split` is what the
\* text splitter returns; fail_at = 0 when add_documents returns, and k > 0 when
\* it raises while handling its k-th document, the documents before it having
\* been handed to the batch, which is flushed when the with block is left.
\* uploads records the answer: the status, the error, and the chunks counted in
\* the message of line 97.
UploadDocument(raw, split, fail_at) ==
    /\ nextDoc <= MaxDocs
    /\ LET document_id == nextDoc
           txt == ExtractText(raw)
       IN  IF NoTextContent(txt)
           THEN /\ split = <<>> /\ fail_at = 0
                /\ uploads' = Append(uploads,
                      [raw |-> raw, status |-> "error", error |-> "no_text",
                       chunk_indexes |-> <<>>, add_called |-> FALSE])
                /\ UNCHANGED index
           ELSE LET processed == ProcessChunks(split, 1, document_id, Len(split)) IN
                /\ IF txt = <<>> THEN split = <<>> ELSE split \in SplitResults
                /\ IF processed = <<>>
                   THEN /\ fail_at = 0
                        /\ uploads' = Append(uploads,
                              [raw |-> raw, status |-> "error", error |-> "no_chunks",
                               chunk_indexes |-> <<>>, add_called |-> FALSE])
                        /\ UNCHANGED index
                   ELSE /\ fail_at \in 0..Len(processed)
                        /\ index' = AddObjects(index, processed,
                                               IF fail_at = 0 THEN Len(processed)
                                               ELSE fail_at - 1)
                        /\ uploads' = Append(uploads,
                              [raw |-> raw,
                               status |-> IF fail_at = 0 THEN "success" ELSE "error",
                               error |-> IF fail_at = 0 THEN "none" ELSE "add_documents",
                               chunk_indexes |-> ChunkIndexes(processed),
                               add_called |-> TRUE])
    /\ nextDoc' = nextDoc + 1
    /\ search_results' = <<>>
    /\ UNCHANGED deleted
    /\ UNCHANGED <<chunkVars, chatVars, faissVars, sourceVars, processVars, loopVars, searchVars, agentVars>>

\* delete_document(document_id), weaviate_client.py lines 293-313: the batch
\* delete returned, True is answered
DeleteDocument(document_id) ==
    /\ document_id \in 1..(nextDoc - 1)
    /\ index' = DeleteObjects(index, document_id)
    /\ deleted' = deleted \cup {document_id}
    /\ search_results' = <<>>
    /\ UNCHANGED <<nextDoc, uploads>>
    /\ UNCHANGED <<chunkVars, chatVars, faissVars, sourceVars, processVars, loopVars, searchVars, agentVars>>

\* delete_document(document_id): the batch delete raised, False is answered
DeleteDocumentRaises(document_id) ==
    /\ document_id \in 1..(nextDoc - 1)
    /\ search_results' = <<>>
    /\ UNCHANGED <<index, nextDoc, uploads, deleted>>
    /\ UNCHANGED <<chunkVars, chatVars, faissVars, sourceVars, processVars, loopVars, searchVars, agentVars>>

\* hybrid_search / bm25_search / vector_search, lines 140-291: at most `limit`
\* objects of the class, ranked by the engine
Search(results) ==
    /\ \A i \in 1..Len(results) : results[i] \in {index[u] : u \in DOMAIN index}
    /\ \A i, j \in 1..Len(results) : i # j => results[i] # results[j]
    /\ search_results' = results
    /\ UNCHANGED <<index, nextDoc, uploads, deleted>>
    /\ UNCHANGED <<chunkVars, chatVars, faissVars, sourceVars, processVars, loopVars, searchVars, agentVars>>

\* the result lists a search with limit <= MaxChunks can return
ResultLists ==
    LET objs == {index[u] : u \in DOMAIN index} IN
    UNION {[1..n -> objs] : n \in 0..MaxChunks}

----------------------------------------------------------------------------
(* The FAISS database: process_text_files, create_faiss_index, save_index,   *)
(* load_index and search of ESGFAISSVectorDatabase. Every method runs to its *)
(* end in one step and answers through its return value.                     *)

NoIndex == "None"             \* self.index = None
Missing == "missing"          \* a file that does not exist

\* self.batch_size (line 41), the number of texts of one encode call
batch_size == 1

\* What the *.txt files of docs_directory chunk into: per file, the number of
\* chunks intelligent_chunk_text returns for it. No file, one file, or two
\* files of one chunk or more.
Directories ==
    {<<>>} \cup {<<n>> : n \in 0..MaxTexts}
           \cup {<<a, b>> : a, b \in {x \in 1..MaxTexts : 2 * x <= MaxTexts}}

\* The chunk texts of one run of process_text_files differ from each other
\* and from those of every other run: text i of run g
ChunkText(g, i) == <<g, i>>

\* _process_single_file, lines 245-268: the chunks of file number `file`
\* holding n chunks, the first of them being chunk number `first` of the run,
\* and their metadata
FileChunks(g, first, n) == [i \in 1..n |-> ChunkText(g, first + i - 1)]
FileMetadata(file, n) == [i \in 1..n |-> [source |-> file, chunk_index |-> i - 1]]

\* process_text_files, lines 209-221: all_chunks and all_metadata
RECURSIVE AllChunks(_, _, _)
AllChunks(g, dir, f) ==
    IF f = 0 THEN <<>>
    ELSE LET before == AllChunks(g, dir, f - 1) IN
         before \o FileChunks(g, Len(before) + 1, dir[f])
RECURSIVE AllMetadata(_, _)
AllMetadata(dir, f) ==
    IF f = 0 THEN <<>> ELSE AllMetadata(dir, f - 1) \o FileMetadata(f, dir[f])

\* the answer of a call
Ret(op, ok) == [op |-> op, ok |-> ok, results |-> <<>>, sent |-> 0, received |-> 0]

\* load_embedding_model, lines 86-94
LoadEmbeddingModel(ok) ==
    /\ model' = (model \/ ok)
    /\ ret' = Ret("load_embedding_model", ok)
    /\ UNCHANGED <<faiss_index, texts, metadata, disk, runs>>
    /\ UNCHANGED <<chunkVars, chatVars, indexVars, sourceVars, processVars, loopVars, searchVars, agentVars>>

\* process_text_files, lines 195-231
ProcessTextFiles(dir) ==
    /\ runs < MaxRuns
    /\ runs' = runs + 1
    /\ LET all_chunks == AllChunks(runs + 1, dir, Len(dir))
           all_metadata == AllMetadata(dir, Len(dir))
       IN  IF dir = <<>> \/ all_chunks = <<>>
           THEN /\ ret' = Ret("process_text_files", FALSE)
                /\ UNCHANGED <<texts, metadata>>
           ELSE /\ texts' = all_chunks
                /\ metadata' = all_metadata
                /\ ret' = Ret("process_text_files", TRUE)
    /\ UNCHANGED <<model, faiss_index, disk>>
    /\ UNCHANGED <<chunkVars, chatVars, indexVars, sourceVars, processVars, loopVars, searchVars, agentVars>>

\* the vector model.encode computes for a text
Embedding(t) == [of |-> t]

\* lines 290-296: the rows of np.vstack(all_embeddings). The embedding
\* collaborator answers batch number short_batch with one vector fewer than
\* the texts it was sent (short_batch = 0: one vector per text, in order).
RECURSIVE Embeddings(_, _, _)
Embeddings(ts, b, short_batch) ==
    IF ts = <<>> THEN <<>>
    ELSE LET n == Min(batch_size, Len(ts))
             batch_texts == SubSeq(ts, 1, n)
             m == IF b = short_batch THEN n - 1 ELSE n
         IN  [i \in 1..m |-> Embedding(batch_texts[i])]
             \o Embeddings(SubSeq(ts, n + 1, Len(ts)), b + 1, short_batch)

\* create_faiss_index, lines 281-309. outcome: "ok", or the statement of the
\* try block that raises: "encode" (line 292) or "add" (line 302, after line
\* 301 has installed the new, empty index).
CreateFaissIndex(short_batch, outcome) ==
    /\ IF texts = <<>>
       THEN /\ short_batch = 0 /\ outcome = "ok"
            /\ ret' = Ret("create_faiss_index", FALSE)
            /\ UNCHANGED faiss_index
       ELSE IF ~model \/ outcome = "encode"
       THEN /\ short_batch = 0 /\ outcome = "encode"
            /\ ret' = Ret("create_faiss_index", FALSE)
            /\ UNCHANGED faiss_index
       ELSE LET embeddings == Embeddings(texts, 1, short_batch) IN
            /\ short_batch \in 0..Len(texts)
            /\ faiss_index' = IF outcome = "add" THEN <<>> ELSE embeddings
            /\ ret' = [Ret("create_faiss_index", outcome = "ok") EXCEPT
                          !.sent = Len(texts), !.received = Len(embeddings)]
    /\ UNCHANGED <<model, texts, metadata, disk, runs>>
    /\ UNCHANGED <<chunkVars, chatVars, indexVars, sourceVars, processVars, loopVars, searchVars, agentVars>>

\* the empty index_directory
EmptyDirectory == [index |-> Missing, metadata |-> Missing, texts |-> Missing,
                   config |-> Missing]

\* save_index, lines 318-354: faiss.index, metadata.pkl, texts.pkl and
\* config.pkl are written in this order; `written` files were written when the
\* call ended, all four when it returned True
SaveIndex(written) ==
    /\ IF faiss_index = NoIndex
       THEN /\ written = 0
            /\ UNCHANGED disk
       ELSE disk' = [index |-> IF written >= 1 THEN faiss_index ELSE disk.index,
                     metadata |-> IF written >= 2 THEN metadata ELSE disk.metadata,
                     texts |-> IF written >= 3 THEN texts ELSE disk.texts,
                     config |-> IF written >= 4
                                THEN [total_vectors |-> Len(faiss_index)]
                                ELSE disk.config]
    /\ ret' = Ret("save_index", written = 4)
    /\ UNCHANGED <<model, faiss_index, texts, metadata, runs>>
    /\ UNCHANGED <<chunkVars, chatVars, indexVars, sourceVars, processVars, loopVars, searchVars, agentVars>>

\* load_index, lines 363-388: the three files are read in the order
\* faiss.index, metadata.pkl, texts.pkl; `read` of them were read when the call
\* ended, all three when it returned True
LoadIndex(read) ==
    /\ IF Missing \in {disk.index, disk.metadata, disk.texts}
       THEN /\ read = 0
            /\ UNCHANGED <<faiss_index, metadata, texts>>
       ELSE /\ faiss_index' = IF read >= 1 THEN disk.index ELSE faiss_index
            /\ metadata' = IF read >= 2 THEN disk.metadata ELSE metadata
            /\ texts' = IF read >= 3 THEN disk.texts ELSE texts
    /\ ret' = Ret("load_index", read = 3)
    /\ UNCHANGED <<model, disk, runs>>
    /\ UNCHANGED <<chunkVars, chatVars, indexVars, sourceVars, processVars, loopVars, searchVars, agentVars>>

\* xs[idx] of Python for a 0-based idx that may be negative
PyInRange(xs, idx) == -Len(xs) <= idx /\ idx < Len(xs)
PyGet(xs, idx) == IF idx >= 0 THEN xs[idx + 1] ELSE xs[Len(xs) + idx + 1]

\* What index.search(query, k) can answer for an index of n vectors: the
\* positions of the min(k, n) nearest vectors, nearest first, filled up to k
\* entries with -1
FaissIndices(n, k) ==
    LET m == Min(k, n)
        Orders == {o \in [1..m -> 0..(n - 1)] : \A i, j \in 1..m : i # j => o[i] # o[j]}
    IN  {[i \in 1..k |-> IF i <= m THEN o[i] ELSE -1] : o \in Orders}

\* lines 413-423: the result list built from the indices
RECURSIVE SearchResults(_, _)
SearchResults(indices, i) ==
    IF i = 0 THEN <<>>
    ELSE SearchResults(indices, i - 1)
         \o (IF indices[i] < Len(texts)
             THEN <<[rank |-> i, text |-> PyGet(texts, indices[i]),
                     metadata |-> PyGet(metadata, indices[i]),
                     vector |-> indices[i]]>>
             ELSE <<>>)

\* lines 418-419 raise IndexError for one of the indices
SearchIndexError(indices) ==
    \E i \in 1..Len(indices) :
        /\ indices[i] < Len(texts)
        /\ ~PyInRange(texts, indices[i]) \/ ~PyInRange(metadata, indices[i])

\* search(query, k), lines 401-429. encode_raises: model.encode raises at line
\* 407. Every exception is answered by the empty list of line 429.
FaissSearch(k, encode_raises) ==
    /\ IF faiss_index = NoIndex \/ ~model
       THEN /\ ~encode_raises
            /\ ret' = Ret("search", TRUE)
       ELSE IF encode_raises
       THEN ret' = Ret("search", TRUE)
       ELSE \E indices \in FaissIndices(Len(faiss_index), k) :
               ret' = [Ret("search", TRUE) EXCEPT
                          !.results = IF SearchIndexError(indices) THEN <<>>
                                      ELSE SearchResults(indices, Len(indices))]
    /\ UNCHANGED <<model, faiss_index, texts, metadata, disk, runs>>
    /\ UNCHANGED <<chunkVars, chatVars, indexVars, sourceVars, processVars, loopVars, searchVars, agentVars>>

----------------------------------------------------------------------------
(* The sources and the context of a chat request that succeeds: chat.py      *)
(* lines 49-86 and _build_context of mistral_client.py.                       *)

\* limit=5 of the hybrid_search call (chat.py line 51)
SearchLimit == 5
\* documents[:5] (mistral_client.py line 131)
ContextLimit == 5
\* the 200 of chat.py line 77
PreviewLen == 200

\* The content of chunk c: PreviewLen - 2 + c characters, a and b in turn,
\* with a leading space in every second chunk
ChunkContent(c) ==
    [i \in 1..(PreviewLen - 2 + c) |->
        IF i = 1 /\ c % 2 = 0 THEN " " ELSE IF i % 2 = 1 THEN "a" ELSE "b"]

\* A result of hybrid_search (weaviate_client.py lines 180-188)
FormattedResult(c) ==
    [content |-> ChunkContent(c), filename |-> c, document_id |-> c,
     chunk_index |-> 0, metadata |-> <<>>, score |-> c]

\* What hybrid_search(limit=5) can return: at most SearchLimit different
\* objects of the class, in the engine's order
RetrievedLists ==
    LET Orders(n) == {o \in [1..n -> 1..MaxPool] : \A i, j \in 1..n : i # j => o[i] # o[j]}
    IN  UNION {{[i \in 1..n |-> FormattedResult(o[i])] : o \in Orders(n)} :
                  n \in 0..Min(SearchLimit, MaxPool)}

\* chat.py line 77 with >= in the place of >
ContentPreviewFrom(content) ==
    IF Len(content) >= PreviewLen
    THEN SubSeq(content, 1, PreviewLen) \o <<".", ".", ".">>
    ELSE content

\* chat.py line 77:
\* result["content"][:200] + "..." if len(result["content"]) > 200 else result["content"]
ContentPreview(content) ==
    IF Len(content) > PreviewLen
    THEN SubSeq(content, 1, Min(PreviewLen, Len(content))) \o <<".", ".", ".">>
    ELSE content

\* chat.py lines 72-80
Sources(results) ==
    [i \in 1..Len(results) |->
        [document_id |-> results[i].document_id,
         filename |-> results[i].filename,
         content_preview |-> ContentPreview(results[i].content),
         score |-> results[i].score,
         metadata |-> results[i].metadata]]

\* _build_context, mistral_client.py lines 127-137: the parts
\* "[Document i: filename]\ncontent" of the context, one per document used
BuildContext(documents) ==
    [i \in 1..Min(ContextLimit, Len(documents)) |->
        [label |-> i, filename |-> documents[i].filename,
         content |-> Strip(documents[i].content)]]

\* chat() for a request whose retrieval and generation succeed
SuccessfulChat ==
    /\ spc = "ready"
    /\ context' = BuildContext(retrieved)
    /\ sources' = Sources(retrieved)
    /\ spc' = "done"
    /\ UNCHANGED retrieved
    /\ UNCHANGED <<chunkVars, chatVars, indexVars, faissVars, processVars, loopVars, searchVars, agentVars>>

----------------------------------------------------------------------------
(* Search: hybrid_search, bm25_search and vector_search of WeaviateClient    *)
(* with the routes of search.py, and the scores of the FAISS search. The     *)
(* ranking itself is the engine's; the code passes query, limit and alpha on *)
(* and returns the engine's documents in the engine's order. One query is     *)
(* followed from the request to its answer.                                  *)

\* the distance of an object the class holds without a vector
NoVector == -1

\* the objects of the class, or the vectors of the FAISS index
Objects == {1, 2, 3}

\* x = num / den with den > 0
Frac(n, d) == [num |-> n, den |-> d]
FracAdd(x, y) == Frac(x.num * y.den + y.num * x.den, x.den * y.den)
FracMul(x, y) == Frac(x.num * y.num, x.den * y.den)
FracLeq(x, y) == x.num * y.den <= y.num * x.den
FracLess(x, y) == x.num * y.den < y.num * x.den

\* alpha of a hybrid search: 0, 1/2 (the default, search.py lines 33 and 131)
\* and 1
Alphas == {Frac(0, 1), Frac(1, 2), Frac(1, 1)}

\* What a query finds in the class: per object its BM25 score (0: no term of
\* the query matches) and the distance of its vector to the query. The class
\* is created with vectorizer "none" and add_documents passes the vector of
\* the document when it has one (lines 57, 128): all objects have a vector or
\* none has.
Corpora ==
    [Objects -> [bm25 : 0..MaxScore, distance : 0..MaxDist]]
    \cup [Objects -> [bm25 : 0..MaxScore, distance : {NoVector}]]

\* the members of S, best first; better holds <<q, o>> when q goes before o
Ranked(S, better) ==
    [i \in 1..Cardinality(S) |->
        CHOOSE o \in S : Cardinality({q \in S : <<q, o>> \in better}) = i - 1]

\* with_bm25: the objects matching the query, highest score first
Bm25Ranking(c) ==
    Ranked({o \in Objects : c[o].bm25 > 0},
           {<<q, o>> \in Objects \X Objects :
               \/ c[q].bm25 > c[o].bm25
               \/ c[q].bm25 = c[o].bm25 /\ q < o})

\* with_near_vector: the objects holding a vector, nearest first
VectorRanking(c) ==
    Ranked({o \in Objects : c[o].distance # NoVector},
           {<<q, o>> \in Objects \X Objects :
               \/ c[q].distance < c[o].distance
               \/ c[q].distance = c[o].distance /\ q < o})

InRanking(ranking, o) == \E i \in 1..Len(ranking) : ranking[i] = o
Position(ranking, o) == CHOOSE i \in 1..Len(ranking) : ranking[i] = o

\* rankedFusion: 1 / (60 + rank) for the rank, from 0, an object has in a ranking
RankedScore(ranking, o) ==
    IF InRanking(ranking, o) THEN Frac(1, 60 + Position(ranking, o) - 1) ELSE Frac(0, 1)

\* relativeScoreFusion: value[o] scaled to [0, 1] over the objects of a ranking
RelativeScore(ranking, value, o) ==
    LET vs == {value[ranking[i]] : i \in 1..Len(ranking)}
        lo == CHOOSE v \in vs : \A w \in vs : v <= w
        hi == CHOOSE v \in vs : \A w \in vs : v >= w
    IN  IF ~InRanking(ranking, o) THEN Frac(0, 1)
        ELSE IF hi = lo THEN Frac(1, 1)
        ELSE Frac(value[o] - lo, hi - lo)

\* with_hybrid(query, alpha): the rankings that take part in the fusion. The
\* keyword ranking takes part when alpha < 1, the vector ranking when
\* alpha > 0.
SparseRanking(c, alpha) == IF FracLess(alpha, Frac(1, 1)) THEN Bm25Ranking(c) ELSE <<>>
DenseRanking(c, alpha) == IF FracLess(Frac(0, 1), alpha) THEN VectorRanking(c) ELSE <<>>

\* with_hybrid(query, alpha): the fused score of every object, the keyword
\* ranking weighing 1 - alpha and the vector ranking alpha
FusedScores(c, alpha, fusion) ==
    LET sparse == SparseRanking(c, alpha)
        dense == DenseRanking(c, alpha)
        bm25 == [q \in Objects |-> c[q].bm25]
        similarity == [q \in Objects |-> MaxDist - c[q].distance]
    IN  [o \in Objects |->
            LET s == IF fusion = "rankedFusion" THEN RankedScore(sparse, o)
                     ELSE RelativeScore(sparse, bm25, o)
                d == IF fusion = "rankedFusion" THEN RankedScore(dense, o)
                     ELSE RelativeScore(dense, similarity, o)
            IN  FracAdd(FracMul(Frac(alpha.den - alpha.num, alpha.den), s),
                        FracMul(alpha, d))]

\* with_hybrid(query, alpha): the objects of the rankings that take part,
\* highest fused score first
HybridRanking(c, alpha, fusion) ==
    LET sparse == SparseRanking(c, alpha)
        dense == DenseRanking(c, alpha)
        score == FusedScores(c, alpha, fusion)
    IN  Ranked({o \in Objects : InRanking(sparse, o) \/ InRanking(dense, o)},
               {<<q, o>> \in Objects \X Objects :
                   \/ FracLess(score[o], score[q])
                   \/ ~FracLess(score[q], score[o]) /\ q < o})

\* .with_limit(limit) changed to .with_limit(limit + 1)
WithLimitPlusOne(ranking, limit) == FirstN(ranking, limit + 1)

\* .with_limit(limit), lines 165, 213 and 261
WithLimit(ranking, limit) == FirstN(ranking, limit)

\* the documents of the answer to a hybrid query, with _additional.score
HybridDocuments(c, alpha, fusion, limit) ==
    LET ranking == WithLimit(HybridRanking(c, alpha, fusion), limit)
        score == FusedScores(c, alpha, fusion)
    IN  [i \in 1..Len(ranking) |-> [document_id |-> ranking[i], score |-> score[ranking[i]]]]

\* the documents of the answer to a BM25 query, with _additional.score
Bm25Documents(c, limit) ==
    LET ranking == WithLimit(Bm25Ranking(c), limit) IN
    [i \in 1..Len(ranking) |->
        [document_id |-> ranking[i], score |-> Frac(c[ranking[i]].bm25, 1)]]

\* the documents of the answer to a near-vector query, with _additional.distance
VectorDocuments(c, limit) ==
    LET ranking == WithLimit(VectorRanking(c), limit) IN
    [i \in 1..Len(ranking) |->
        [document_id |-> ranking[i], distance |-> c[ranking[i]].distance]]

\* lines 173-188 with the documents taken last first
FormattedResultsReversed(documents) ==
    [i \in 1..Len(documents) |->
        [document_id |-> documents[Len(documents) + 1 - i].document_id,
         score |-> documents[Len(documents) + 1 - i].score]]

\* hybrid_search and bm25_search, lines 173-188 and 269-284: one result per
\* document, in the order of the answer, its score the _additional.score
FormattedResults(documents) ==
    [i \in 1..Len(documents) |->
        [document_id |-> documents[i].document_id, score |-> documents[i].score]]

\* vector_search line 235: 1.0 - doc["_additional"]["distance"]
VectorScore(distance) == Frac(1 - distance, 1)

\* vector_search, lines 220-236
FormattedVectorResults(documents) ==
    [i \in 1..Len(documents) |->
        [document_id |-> documents[i].document_id,
         score |-> VectorScore(documents[i].distance)]]

\* vector_database.py line 421: 1 / (1 + distance)
SimilarityScore(distance) == Frac(1, 1 + distance)

\* search.py lines 43-57, 107-121 and 151-165: the SearchResult list
SearchResponse(results) ==
    [i \in 1..Len(results) |->
        [document_id |-> results[i].document_id, score |-> results[i].score]]

\* the latest search: what was asked and what was answered
Found(op, alpha, limit, ok, results) ==
    [op |-> op, alpha |-> alpha, limit |-> limit, ok |-> ok, results |-> results]
NoFound == Found("none", Frac(0, 1), 0, TRUE, <<>>)

\* POST /hybrid (search.py lines 128-169): hybrid_search with the alpha of the
\* request. raises: the engine's query raises (it may, for one, when alpha > 0
\* and the class has no vectorizer for the query text), which hybrid_search
\* raises again (lines 193-195) and the route answers with HTTP 500.
HybridSearchRoute(alpha, limit, fusion, raises) ==
    /\ found = NoFound
    /\ found' = IF raises THEN Found("hybrid", alpha, limit, FALSE, <<>>)
                ELSE Found("hybrid", alpha, limit, TRUE,
                           SearchResponse(FormattedResults(
                               HybridDocuments(corpus, alpha, fusion, limit))))
    /\ UNCHANGED corpus
    /\ UNCHANGED <<chunkVars, chatVars, indexVars, faissVars, sourceVars, processVars,
                   loopVars, agentVars>>

\* POST / (search.py lines 16-61): hybrid_search with alpha = 0.5 when
\* use_hybrid, bm25_search otherwise
SearchDocuments(use_hybrid, limit, fusion, raises) ==
    /\ found = NoFound
    /\ found' = IF raises
                THEN Found(IF use_hybrid THEN "hybrid" ELSE "bm25", Frac(1, 2), limit,
                           FALSE, <<>>)
                ELSE IF use_hybrid
                THEN Found("hybrid", Frac(1, 2), limit, TRUE,
                           SearchResponse(FormattedResults(
                               HybridDocuments(corpus, Frac(1, 2), fusion, limit))))
                ELSE Found("bm25", Frac(1, 2), limit, TRUE,
                           SearchResponse(FormattedResults(Bm25Documents(corpus, limit))))
    /\ UNCHANGED corpus
    /\ UNCHANGED <<chunkVars, chatVars, indexVars, faissVars, sourceVars, processVars,
                   loopVars, agentVars>>

\* vector_search(query_vector, limit), lines 203-243
VectorSearch(limit, raises) ==
    /\ found = NoFound
    /\ found' = IF raises THEN Found("vector_search", Frac(1, 1), limit, FALSE, <<>>)
                ELSE Found("vector_search", Frac(1, 1), limit, TRUE,
                           FormattedVectorResults(VectorDocuments(corpus, limit)))
    /\ UNCHANGED corpus
    /\ UNCHANGED <<chunkVars, chatVars, indexVars, faissVars, sourceVars, processVars,
                   loopVars, agentVars>>

\* search(query, k) of the FAISS database over the vectors of the corpus,
\* k <= ntotal: vector_database.py lines 410-425, the distance and the
\* similarity_score of each result
FaissScoredSearch(k) ==
    /\ found = NoFound
    /\ \A o \in Objects : corpus[o].distance # NoVector
    /\ LET indices == FirstN(VectorRanking(corpus), k) IN
       found' = Found("faiss_search", Frac(1, 1), k, TRUE,
                      [i \in 1..Len(indices) |->
                          [rank |-> i, document_id |-> indices[i],
                           distance |-> corpus[indices[i]].distance,
                           score |-> SimilarityScore(corpus[indices[i]].distance)]])
    /\ UNCHANGED corpus
    /\ UNCHANGED <<chunkVars, chatVars, indexVars, faissVars, sourceVars, processVars,
                   loopVars, agentVars>>

----------------------------------------------------------------------------
(* ConversationAgent (src/agents/conversation_agent.py): the question bank,  *)
(* start_conversation and process_user_message.                               *)

NoQuestion == 0               \* self.current_question = None
NoTopic == "None"             \* self.current_topic = None

\* The keys of self.esg_topics (lines 30-86), in their order: the first two
\* of the five topics
Topics == <<"company_overview", "environmental">>

\* all_questions of _get_next_question (lines 287-291): the questions of every
\* topic in turn, MaxQuestions of them per topic, each with its id and topic
AllQuestions ==
    [i \in 1..(Len(Topics) * MaxQuestions) |->
        [id |-> i, topic |-> Topics[((i - 1) \div MaxQuestions) + 1]]]

\* What a user writes: two answers, a question, an answer with a question mark
UserMessages == {<<"y">>, <<" ", "n">>, <<"?">>, <<"n", " ", "?">>}

\* the help pattern the messages above can hold (line 231)
HelpPatterns == {<<"?">>}

\* pattern in message
Contains(message, pattern) ==
    \E i \in 1..(Len(message) - Len(pattern) + 1) :
        SubSeq(message, i, i + Len(pattern) - 1) = pattern

\* _check_for_help_request, lines 223-282, returns a help text
CheckForHelpRequest(user_message) ==
    \E pattern \in HelpPatterns : Contains(Strip(user_message), pattern)

\* d[key] = value for a dict d
DictSet(d, key, value) ==
    [x \in DOMAIN d \cup {key} |-> IF x = key THEN value ELSE d[x]]

\* _store_answer changed to store under the id of the question that follows
StoreAnswerUnderNext(knowledge, topic, question_id, answer) ==
    DictSet(knowledge, topic,
            DictSet(IF topic \in DOMAIN knowledge THEN knowledge[topic] ELSE <<>>,
                    question_id + 1, Strip(answer)))

\* _store_answer, lines 310-315
StoreAnswer(knowledge, topic, question_id, answer) ==
    DictSet(knowledge, topic,
            DictSet(IF topic \in DOMAIN knowledge THEN knowledge[topic] ELSE <<>>,
                    question_id, Strip(answer)))

\* _integrate_research_data, lines 818-886: every topic gets its dict; what
\* the research found about the products is stored under "main_products",
\* the id of a question of the first topic (the second one here)
IntegrateResearchData(knowledge) ==
    LET with_topics == [t \in DOMAIN knowledge \cup {Topics[i] : i \in 1..Len(Topics)} |->
                           IF t \in DOMAIN knowledge THEN knowledge[t] ELSE <<>>]
    IN  DictSet(with_topics, Topics[1], DictSet(with_topics[Topics[1]], 2, <<"r">>))

\* _get_next_question, lines 294-306: self.current_question, self.current_topic
\* and whether a question text is returned
GetNextQuestion(question_index, topic) ==
    IF question_index < Len(AllQuestions)
    THEN [current_question |-> question_index + 1,
          current_topic |-> AllQuestions[question_index + 1].topic,
          question |-> TRUE]
    ELSE [current_question |-> NoQuestion, current_topic |-> topic, question |-> FALSE]

\* what a call of the agent returned
AgentRet(op, help, ready_for_report) ==
    [op |-> op, help |-> help, ready_for_report |-> ready_for_report]
NoAgentRet == AgentRet("none", FALSE, FALSE)

\* start_conversation(company_info), lines 111-151
StartConversation(has_research) ==
    /\ knowledge_collected' = IF has_research THEN IntegrateResearchData(knowledge_collected)
                              ELSE knowledge_collected
    /\ LET next == GetNextQuestion(0, Topics[1]) IN
       /\ current_question_index' = 0
       /\ current_question' = next.current_question
       /\ current_topic' = next.current_topic
    /\ agent_ret' = AgentRet("start_conversation", FALSE, FALSE)
    /\ UNCHANGED <<chunkVars, chatVars, indexVars, faissVars, sourceVars, processVars,
                   loopVars, searchVars>>

\* process_user_message(user_message), lines 157-219
ProcessUserMessage(user_message) ==
    /\ current_question_index <= Len(AllQuestions)
    /\ IF CheckForHelpRequest(user_message)
       THEN /\ agent_ret' = AgentRet("process_user_message", TRUE, FALSE)
            /\ UNCHANGED <<current_question_index, current_question, current_topic,
                           knowledge_collected>>
       ELSE LET next == GetNextQuestion(current_question_index + 1, current_topic) IN
            /\ knowledge_collected' =
                  IF current_question # NoQuestion
                  THEN StoreAnswer(knowledge_collected, current_topic,
                                   AllQuestions[current_question].id, user_message)
                  ELSE knowledge_collected
            /\ current_question_index' = current_question_index + 1
            /\ current_question' = next.current_question
            /\ current_topic' = next.current_topic
            /\ agent_ret' = AgentRet("process_user_message", FALSE, ~next.question)
    /\ UNCHANGED <<chunkVars, chatVars, indexVars, faissVars, sourceVars, processVars,
                   loopVars, searchVars>>

----------------------------------------------------------------------------
(* Specifications *)

ChunkNext == ChunkCall \/ ChunkAgain

ChatNext ==
    \/ \E k \in Slots, sid \in SessionIds \cup {NoSessionId}, use_history \in BOOLEAN :
          ChatStart(k, sid, use_history)
    \/ \E k \in Slots : SearchReturns(k)
    \/ \E k \in Slots : SearchRaises(k)
    \/ \E k \in Slots : GenerateReturns(k)
    \/ \E k \in Slots : GenerateRaises(k)
    \/ \E sid \in SessionIds : ClearChatSession(sid)

\* every route of chat.py
SessionNext ==
    \/ ChatNext
    \/ \E sid \in SessionIds : GetChatHistory(sid)
    \/ ListChatSessions
    \/ \E sid \in SessionIds, generated \in BOOLEAN : SummarizeConversation(sid, generated)
    \/ \E sid \in SessionIds, message_index \in {0, 2}, rating \in {0, 5} :
          SubmitFeedback(sid, message_index, rating)

IndexNext ==
    \/ \E raw \in FileContents, split \in SplitResults \cup {<<>>}, fail_at \in 0..MaxChunks :
          UploadDocument(raw, split, fail_at)
    \/ \E d \in 1..MaxDocs : DeleteDocument(d)
    \/ \E d \in 1..MaxDocs : DeleteDocumentRaises(d)
    \/ \E results \in ResultLists : Search(results)

\* Every text up to MaxTextLen characters under every configuration
ChunkInit ==
    /\ text \in Strings(MaxTextLen)
    /\ chunk_size \in 1..MaxChunkSize
    /\ chunk_overlap \in 0..MaxOverlap
    /\ packed = <<>> /\ chunks = <<>> /\ rechunks = <<>> /\ cpc = "ready"
    /\ chat_sessions = <<>> /\ req = [k \in Slots |-> IdleReq]
    /\ nextMsg = MaxPriorTurns + 1 /\ succeeded = [s \in SessionIds |-> {}]
    /\ reply = NoReply
    /\ index = <<>> /\ nextDoc = 1 /\ uploads = <<>> /\ deleted = {}
    /\ search_results = <<>>
    /\ model = FALSE /\ faiss_index = NoIndex /\ texts = <<>> /\ metadata = <<>>
    /\ disk = EmptyDirectory /\ ret = Ret("init", TRUE) /\ runs = 0
    /\ retrieved = <<>> /\ context = <<>> /\ sources = <<>> /\ spc = "ready"
    /\ text_chunks = <<>> /\ processed_chunks = <<>> /\ ppc = "ready"
    /\ clear_requests = {} /\ corpus = <<>> /\ found = NoFound
    /\ current_question_index = 0 /\ current_question = NoQuestion
    /\ current_topic = NoTopic /\ knowledge_collected = <<>> /\ agent_ret = NoAgentRet

\* The session store after 0..MaxPriorTurns sequential turns of session "s1"
ChatInit ==
    /\ text = <<>> /\ chunk_size = 1 /\ chunk_overlap = 0
    /\ packed = <<>> /\ chunks = <<>> /\ rechunks = <<>> /\ cpc = "ready"
    /\ \E p \in 0..MaxPriorTurns :
          /\ chat_sessions = IF p = 0 THEN <<>> ELSE [s \in {"s1"} |-> PriorMessages(p)]
          /\ succeeded = [s \in SessionIds |->
                            IF s = "s1" THEN (MaxPriorTurns - p + 1)..MaxPriorTurns ELSE {}]
    /\ req = [k \in Slots |-> IdleReq]
    /\ nextMsg = MaxPriorTurns + 1 /\ reply = NoReply
    /\ index = <<>> /\ nextDoc = 1 /\ uploads = <<>> /\ deleted = {}
    /\ search_results = <<>>
    /\ model = FALSE /\ faiss_index = NoIndex /\ texts = <<>> /\ metadata = <<>>
    /\ disk = EmptyDirectory /\ ret = Ret("init", TRUE) /\ runs = 0
    /\ retrieved = <<>> /\ context = <<>> /\ sources = <<>> /\ spc = "ready"
    /\ text_chunks = <<>> /\ processed_chunks = <<>> /\ ppc = "ready"
    /\ clear_requests = {} /\ corpus = <<>> /\ found = NoFound
    /\ current_question_index = 0 /\ current_question = NoQuestion
    /\ current_topic = NoTopic /\ knowledge_collected = <<>> /\ agent_ret = NoAgentRet

\* The empty index
IndexInit ==
    /\ text = <<>> /\ chunk_size = 1 /\ chunk_overlap = 0
    /\ packed = <<>> /\ chunks = <<>> /\ rechunks = <<>> /\ cpc = "ready"
    /\ chat_sessions = <<>> /\ req = [k \in Slots |-> IdleReq]
    /\ nextMsg = MaxPriorTurns + 1 /\ succeeded = [s \in SessionIds |-> {}]
    /\ reply = NoReply
    /\ index = <<>> /\ nextDoc = 1 /\ uploads = <<>> /\ deleted = {}
    /\ search_results = <<>>
    /\ model = FALSE /\ faiss_index = NoIndex /\ texts = <<>> /\ metadata = <<>>
    /\ disk = EmptyDirectory /\ ret = Ret("init", TRUE) /\ runs = 0
    /\ retrieved = <<>> /\ context = <<>> /\ sources = <<>> /\ spc = "ready"
    /\ text_chunks = <<>> /\ processed_chunks = <<>> /\ ppc = "ready"
    /\ clear_requests = {} /\ corpus = <<>> /\ found = NoFound
    /\ current_question_index = 0 /\ current_question = NoQuestion
    /\ current_topic = NoTopic /\ knowledge_collected = <<>> /\ agent_ret = NoAgentRet

FaissNext ==
    \/ \E ok \in BOOLEAN : LoadEmbeddingModel(ok)
    \/ \E dir \in Directories : ProcessTextFiles(dir)
    \/ \E short_batch \in 0..MaxTexts, outcome \in {"ok", "encode", "add"} :
          CreateFaissIndex(short_batch, outcome)
    \/ \E written \in 0..4 : SaveIndex(written)
    \/ \E read \in 0..3 : LoadIndex(read)
    \/ \E k \in 1..MaxK, encode_raises \in BOOLEAN : FaissSearch(k, encode_raises)

\* The database after __init__, with an empty index directory
FaissInit ==
    /\ text = <<>> /\ chunk_size = 1 /\ chunk_overlap = 0
    /\ packed = <<>> /\ chunks = <<>> /\ rechunks = <<>> /\ cpc = "ready"
    /\ chat_sessions = <<>> /\ req = [k \in Slots |-> IdleReq]
    /\ nextMsg = MaxPriorTurns + 1 /\ succeeded = [s \in SessionIds |-> {}]
    /\ reply = NoReply
    /\ index = <<>> /\ nextDoc = 1 /\ uploads = <<>> /\ deleted = {}
    /\ search_results = <<>>
    /\ model = FALSE /\ faiss_index = NoIndex /\ texts = <<>> /\ metadata = <<>>
    /\ disk = EmptyDirectory /\ ret = Ret("init", TRUE) /\ runs = 0
    /\ retrieved = <<>> /\ context = <<>> /\ sources = <<>> /\ spc = "ready"
    /\ text_chunks = <<>> /\ processed_chunks = <<>> /\ ppc = "ready"
    /\ clear_requests = {} /\ corpus = <<>> /\ found = NoFound
    /\ current_question_index = 0 /\ current_question = NoQuestion
    /\ current_topic = NoTopic /\ knowledge_collected = <<>> /\ agent_ret = NoAgentRet

SourcesNext == SuccessfulChat

\* Every result list the retrieval can return
SourcesInit ==
    /\ text = <<>> /\ chunk_size = 1 /\ chunk_overlap = 0
    /\ packed = <<>> /\ chunks = <<>> /\ rechunks = <<>> /\ cpc = "ready"
    /\ chat_sessions = <<>> /\ req = [k \in Slots |-> IdleReq]
    /\ nextMsg = MaxPriorTurns + 1 /\ succeeded = [s \in SessionIds |-> {}]
    /\ reply = NoReply
    /\ index = <<>> /\ nextDoc = 1 /\ uploads = <<>> /\ deleted = {}
    /\ search_results = <<>>
    /\ model = FALSE /\ faiss_index = NoIndex /\ texts = <<>> /\ metadata = <<>>
    /\ disk = EmptyDirectory /\ ret = Ret("init", TRUE) /\ runs = 0
    /\ retrieved \in RetrievedLists
    /\ context = <<>> /\ sources = <<>> /\ spc = "ready"
    /\ text_chunks = <<>> /\ processed_chunks = <<>> /\ ppc = "ready"
    /\ clear_requests = {} /\ corpus = <<>> /\ found = NoFound
    /\ current_question_index = 0 /\ current_question = NoQuestion
    /\ current_topic = NoTopic /\ knowledge_collected = <<>> /\ agent_ret = NoAgentRet

ProcessNext == ProcessDocument

\* Every chunk sequence the splitter can return for a text with content
ProcessInit ==
    /\ text = <<>> /\ chunk_size = 1 /\ chunk_overlap = 0
    /\ packed = <<>> /\ chunks = <<>> /\ rechunks = <<>> /\ cpc = "ready"
    /\ chat_sessions = <<>> /\ req = [k \in Slots |-> IdleReq]
    /\ nextMsg = MaxPriorTurns + 1 /\ succeeded = [s \in SessionIds |-> {}]
    /\ reply = NoReply
    /\ index = <<>> /\ nextDoc = 1 /\ uploads = <<>> /\ deleted = {}
    /\ search_results = <<>>
    /\ model = FALSE /\ faiss_index = NoIndex /\ texts = <<>> /\ metadata = <<>>
    /\ disk = EmptyDirectory /\ ret = Ret("init", TRUE) /\ runs = 0
    /\ retrieved = <<>> /\ context = <<>> /\ sources = <<>> /\ spc = "ready"
    /\ text_chunks \in SplitsUpTo(MaxSplit)
    /\ processed_chunks = <<>> /\ ppc = "ready"
    /\ clear_requests = {} /\ corpus = <<>> /\ found = NoFound
    /\ current_question_index = 0 /\ current_question = NoQuestion
    /\ current_topic = NoTopic /\ knowledge_collected = <<>> /\ agent_ret = NoAgentRet

SpecChunk == ChunkInit /\ [][ChunkNext]_vars

SpecChat == ChatInit /\ [][ChatNext]_vars

\* The session store as the module creates it (line 17): empty
SessionInit ==
    /\ text = <<>> /\ chunk_size = 1 /\ chunk_overlap = 0
    /\ packed = <<>> /\ chunks = <<>> /\ rechunks = <<>> /\ cpc = "ready"
    /\ chat_sessions = <<>> /\ req = [k \in Slots |-> IdleReq]
    /\ nextMsg = MaxPriorTurns + 1 /\ succeeded = [s \in SessionIds |-> {}]
    /\ reply = NoReply
    /\ index = <<>> /\ nextDoc = 1 /\ uploads = <<>> /\ deleted = {}
    /\ search_results = <<>>
    /\ model = FALSE /\ faiss_index = NoIndex /\ texts = <<>> /\ metadata = <<>>
    /\ disk = EmptyDirectory /\ ret = Ret("init", TRUE) /\ runs = 0
    /\ retrieved = <<>> /\ context = <<>> /\ sources = <<>> /\ spc = "ready"
    /\ text_chunks = <<>> /\ processed_chunks = <<>> /\ ppc = "ready"
    /\ clear_requests = {} /\ corpus = <<>> /\ found = NoFound
    /\ current_question_index = 0 /\ current_question = NoQuestion
    /\ current_topic = NoTopic /\ knowledge_collected = <<>> /\ agent_ret = NoAgentRet

SpecSession == SessionInit /\ [][SessionNext]_vars

\* The chat route when retrieval always answers. Nothing makes the generation
\* answer: chat() awaits it without a timeout (lines 58-63, and lines 58-64 of
\* mistral_client.py), so no step of a coroutine waiting for it is forced.
SpecChatLive ==
    /\ ChatInit
    /\ [][ChatNext]_vars
    /\ \A k \in Slots : WF_vars(SearchReturns(k) \/ SearchRaises(k))

SpecIndex == IndexInit /\ [][IndexNext]_vars

SpecFaiss == FaissInit /\ [][FaissNext]_vars

SpecSources == SourcesInit /\ [][SourcesNext]_vars

SpecProcess == ProcessInit /\ [][ProcessNext]_vars

\* The backend as it handles chat and clear requests: a handler is called
\* when the loop is free, a coroutine in flight runs on at each await
SerialNext ==
    \/ \E k \in Slots, sid \in SessionIds \cup {NoSessionId}, use_history \in BOOLEAN :
          HandleChat(k, sid, use_history)
    \/ \E k \in Slots : SearchReturns(k)
    \/ \E k \in Slots : SearchRaises(k)
    \/ \E k \in Slots : GenerateReturns(k)
    \/ \E k \in Slots : GenerateRaises(k)
    \/ \E sid \in SessionIds : ClearArrives(sid)
    \/ \E sid \in SessionIds : HandleClear(sid)

SpecChatSerial == ChatInit /\ [][SerialNext]_vars

SearchNext ==
    \/ \E alpha \in Alphas, limit \in 1..Cardinality(Objects),
          fusion \in {"rankedFusion", "relativeScoreFusion"}, raises \in BOOLEAN :
          HybridSearchRoute(alpha, limit, fusion, raises)
    \/ \E use_hybrid \in BOOLEAN, limit \in 1..Cardinality(Objects),
          fusion \in {"rankedFusion", "relativeScoreFusion"}, raises \in BOOLEAN :
          SearchDocuments(use_hybrid, limit, fusion, raises)
    \/ \E limit \in 1..Cardinality(Objects), raises \in BOOLEAN : VectorSearch(limit, raises)
    \/ \E k \in 1..Cardinality(Objects) : FaissScoredSearch(k)

\* Every class of three objects as a query can find it
SearchInit ==
    /\ text = <<>> /\ chunk_size = 1 /\ chunk_overlap = 0
    /\ packed = <<>> /\ chunks = <<>> /\ rechunks = <<>> /\ cpc = "ready"
    /\ chat_sessions = <<>> /\ req = [k \in Slots |-> IdleReq]
    /\ nextMsg = MaxPriorTurns + 1 /\ succeeded = [s \in SessionIds |-> {}]
    /\ reply = NoReply
    /\ index = <<>> /\ nextDoc = 1 /\ uploads = <<>> /\ deleted = {}
    /\ search_results = <<>>
    /\ model = FALSE /\ faiss_index = NoIndex /\ texts = <<>> /\ metadata = <<>>
    /\ disk = EmptyDirectory /\ ret = Ret("init", TRUE) /\ runs = 0
    /\ retrieved = <<>> /\ context = <<>> /\ sources = <<>> /\ spc = "ready"
    /\ text_chunks = <<>> /\ processed_chunks = <<>> /\ ppc = "ready"
    /\ clear_requests = {} /\ corpus \in Corpora /\ found = NoFound
    /\ current_question_index = 0 /\ current_question = NoQuestion
    /\ current_topic = NoTopic /\ knowledge_collected = <<>> /\ agent_ret = NoAgentRet

SpecSearch == SearchInit /\ [][SearchNext]_vars

AgentNext ==
    \/ \E has_research \in BOOLEAN : StartConversation(has_research)
    \/ \E user_message \in UserMessages : ProcessUserMessage(user_message)

\* The agent after __init__ (lines 23-27 and 89-92)
AgentInit ==
    /\ text = <<>> /\ chunk_size = 1 /\ chunk_overlap = 0
    /\ packed = <<>> /\ chunks = <<>> /\ rechunks = <<>> /\ cpc = "ready"
    /\ chat_sessions = <<>> /\ req = [k \in Slots |-> IdleReq]
    /\ nextMsg = MaxPriorTurns + 1 /\ succeeded = [s \in SessionIds |-> {}]
    /\ reply = NoReply
    /\ index = <<>> /\ nextDoc = 1 /\ uploads = <<>> /\ deleted = {}
    /\ search_results = <<>>
    /\ model = FALSE /\ faiss_index = NoIndex /\ texts = <<>> /\ metadata = <<>>
    /\ disk = EmptyDirectory /\ ret = Ret("init", TRUE) /\ runs = 0
    /\ retrieved = <<>> /\ context = <<>> /\ sources = <<>> /\ spc = "ready"
    /\ text_chunks = <<>> /\ processed_chunks = <<>> /\ ppc = "ready"
    /\ clear_requests = {} /\ corpus = <<>> /\ found = NoFound
    /\ current_question_index = 0 /\ current_question = NoQuestion
    /\ current_topic = NoTopic /\ knowledge_collected = <<>> /\ agent_ret = NoAgentRet

SpecAgent == AgentInit /\ [][AgentNext]_vars

----------------------------------------------------------------------------
(* Claims about the chunker *)

\* C1: every chunk returned by intelligent_chunk_text has length <= chunk_size,
\* chunks with the overlap prefix and chunks of the word-level fallback included.
C1_ChunkLengthBound ==
    cpc = "done" => \A i \in 1..Len(chunks) : Len(chunks[i]) <= chunk_size

\* C2 as stated: with chunk_overlap > 0 and more than one chunk, every chunk
\* after the first begins with exactly the last chunk_overlap characters of the
\* preceding output chunk, and the first chunk is unchanged.
C2_OverlapExact ==
    (cpc = "done" /\ chunk_overlap > 0 /\ Len(chunks) > 1) =>
        /\ chunks[1] = packed[1]
        /\ \A i \in 2..Len(chunks) :
              /\ Len(chunks[i - 1]) >= chunk_overlap
              /\ Len(chunks[i]) >= chunk_overlap
              /\ FirstN(chunks[i], chunk_overlap) = LastN(chunks[i - 1], chunk_overlap)

\* C2 amended: every chunk after the first is the last min(chunk_overlap, L)
\* characters of the preceding output chunk, then one space, then the chunk's
\* own text, where L is the length the preceding chunk had before overlap was
\* applied; the first chunk is unchanged and no chunk is added or dropped.
C2_OverlapUpToPrevLength ==
    (cpc = "done" /\ chunk_overlap > 0 /\ Len(packed) > 1) =>
        /\ Len(chunks) = Len(packed)
        /\ chunks[1] = packed[1]
        /\ \A i \in 2..Len(chunks) :
              LET m == Min(chunk_overlap, Len(packed[i - 1])) IN
              chunks[i] = LastN(chunks[i - 1], m) \o <<" ">> \o packed[i]

\* C2 witness: three chunks, the middle one shorter than the overlap before the
\* overlap was applied, so that the third chunk does not begin with the last
\* chunk_overlap characters of the second output chunk.
C2_Witness ==
    /\ cpc = "done" /\ chunk_overlap > 0 /\ Len(chunks) > 2
    /\ Len(packed[2]) < chunk_overlap
    /\ Len(chunks[2]) >= chunk_overlap
    /\ FirstN(chunks[3], chunk_overlap) # LastN(chunks[2], chunk_overlap)
    /\ packed[1] # packed[2]

----------------------------------------------------------------------------
(* Claims about the chat route *)

\* the stored list of a session, empty when the session does not exist
Stored(s) == IF s \in DOMAIN chat_sessions THEN chat_sessions[s] ELSE <<>>

\* C3: every session's stored list has even length and is made of consecutive
\* (user, assistant) pairs: no stored user message lacks its assistant message.
C3_PairedTurns ==
    \A s \in DOMAIN chat_sessions :
        LET L == chat_sessions[s] IN
        /\ Len(L) % 2 = 0
        /\ \A i \in 1..Len(L) :
              IF i % 2 = 1
              THEN L[i].role = "user" /\ i + 1 <= Len(L) /\ L[i + 1].role = "assistant"
              ELSE L[i].role = "assistant"

\* C3 witness: a request has failed, another is waiting for its generation, and
\* the session it belongs to holds a pair stored in this run.
C3_Witness ==
    \E k, j \in Slots :
        /\ req[j].response = "error"
        /\ req[k].pc = "generate"
        /\ \E i \in 1..Len(Stored(req[k].session_id)) :
              Stored(req[k].session_id)[i].content > MaxPriorTurns

\* C4: when the requests of a session all complete successfully with no clear
\* in between, the stored list holds exactly two messages per request, each
\* request's user message exactly once and immediately followed by its answer.
C4_NoLostAppend ==
    \A s \in SessionIds :
        LET L == Stored(s) IN
        /\ Len(L) = 2 * Cardinality(succeeded[s])
        /\ \A m \in succeeded[s] :
              /\ Cardinality({i \in 1..Len(L) : L[i].content = m /\ L[i].role = "user"}) = 1
              /\ Cardinality({i \in 1..Len(L) : L[i].content = m /\ L[i].role = "assistant"}) = 1
              /\ \E i \in 1..(Len(L) - 1) :
                    /\ L[i].role = "user" /\ L[i].content = m
                    /\ L[i + 1].role = "assistant" /\ L[i + 1].content = m

\* C4 witness: two requests of one session ran at the same time and both
\* succeeded: the request that started later is stored first.
C4_Witness ==
    \E s \in SessionIds :
        \E i, j \in 1..Len(Stored(s)) :
            /\ i < j
            /\ Stored(s)[i].content > Stored(s)[j].content
            /\ {Stored(s)[i].content, Stored(s)[j].content} \subseteq succeeded[s]

\* the last min(HistoryWindow, n) messages of L as role/content pairs
LastStored(L, use_history) ==
    IF ~use_history THEN <<>>
    ELSE LET n == Len(L)
             m == IF n < 10 THEN n ELSE 10
         IN  [i \in 1..m |-> [role |-> L[n - m + i].role, content |-> L[n - m + i].content]]

\* the history part of a generation request: all but the system prompt and the
\* final user message
HistoryOf(messages) == SubSeq(messages, 2, Len(messages) - 1)

\* C5: the history placed in a generation request has at most 10 messages and
\* is exactly the last min(10, n) messages the session stored when the request
\* started, in stored order; it is empty with use_history false.
C5_HistoryWindow ==
    /\ [][\A k \in Slots :
            (req[k].pc = "idle" /\ req'[k].pc = "search") =>
                req'[k].chat_history =
                    LastStored(chat_sessions'[req'[k].session_id], req'[k].use_history)]_vars
    /\ [](\A k \in Slots :
            req[k].pc = "generate" =>
                /\ Len(req[k].messages) >= 2
                /\ HistoryOf(req[k].messages) = req[k].chat_history
                /\ Len(HistoryOf(req[k].messages)) <= 10
                /\ (~req[k].use_history => HistoryOf(req[k].messages) = <<>>))

\* C5 witness: a generation request built for a session that held twelve
\* messages when the request started; its history starts at the third.
C5_Witness ==
    \E k \in Slots :
        /\ req[k].pc = "generate"
        /\ \A j \in Slots \ {k} : req[j].pc = "idle"
        /\ Len(Stored(req[k].session_id)) = 12
        /\ Len(HistoryOf(req[k].messages)) = 10
        /\ HistoryOf(req[k].messages)[1].content = Stored(req[k].session_id)[3].content
        /\ HistoryOf(req[k].messages)[1].content # Stored(req[k].session_id)[1].content

\* C13: when the generation raises during a chat request, the caller gets an
\* error and the session gains, for that turn, the user's message followed by
\* an assistant (fallback) message.
C13_FallbackRecorded ==
    [][\A k \in Slots :
          (/\ req[k].pc = "generate"
           /\ req'[k].response = "error"
           /\ req[k].session_id \in DOMAIN chat_sessions)
          => LET sid == req[k].session_id IN
             /\ sid \in DOMAIN chat_sessions'
             /\ Len(chat_sessions'[sid]) = Len(chat_sessions[sid]) + 2
             /\ SubSeq(chat_sessions'[sid], 1, Len(chat_sessions[sid])) = chat_sessions[sid]
             /\ chat_sessions'[sid][Len(chat_sessions[sid]) + 1].role = "user"
             /\ chat_sessions'[sid][Len(chat_sessions[sid]) + 1].content = req[k].message
             /\ chat_sessions'[sid][Len(chat_sessions[sid]) + 2].role = "assistant"]_vars

\* C14: every chat request eventually returns to its caller, with a response or
\* an error, also when the generation never answers.
C14_RequestReturns ==
    \A k \in Slots : (req[k].pc = "generate") ~> (req[k].pc = "idle")

\* session s was created, removed or changed by the step
SessionChanged(s) ==
    \/ (s \in DOMAIN chat_sessions) # (s \in DOMAIN chat_sessions')
    \/ /\ s \in DOMAIN chat_sessions /\ s \in DOMAIN chat_sessions'
       /\ chat_sessions'[s] # chat_sessions[s]

\* the step is a step of a chat request on session s, or a clear of s
StepOn(s) ==
    \/ reply'.op = "clear" /\ reply'.session_id = s
    \/ \E k \in Slots : /\ req'[k] # req[k]
                        /\ req[k].session_id = s \/ req'[k].session_id = s

\* C17: a step of a chat request on session A, or a clear of A, changes the
\* stored list of no session B # A and neither creates nor removes B.
C17_SessionsIsolated ==
    [][\A s \in SessionIds :
          SessionChanged(s) =>
              /\ StepOn(s)
              /\ \A t \in SessionIds \ {s} : ~SessionChanged(t)]_vars

\* C17 witness: session "s1" was cleared while "s2" holds a stored turn and a
\* further request on "s2" waits for its generation.
C17_Witness ==
    /\ reply.op = "clear" /\ reply.session_id = "s1" /\ reply.status = "cleared"
    /\ "s2" \in DOMAIN chat_sessions /\ Len(chat_sessions["s2"]) = 2
    /\ \E k \in Slots : req[k].pc = "generate" /\ req[k].session_id = "s2"

\* C18: for a session id the store does not hold (never used, or cleared),
\* history answers normally with an empty message list and clear answers
\* "not found", and neither changes the session store.
C18_UnknownSession ==
    [][/\ (reply'.op = "history" /\ reply'.session_id \notin DOMAIN chat_sessions)
          => /\ reply'.status = "ok"
             /\ reply'.messages = <<>>
             /\ chat_sessions' = chat_sessions
       /\ (reply'.op = "clear" /\ reply'.session_id \notin DOMAIN chat_sessions)
          => /\ reply'.status = "not_found"
             /\ chat_sessions' = chat_sessions]_vars

\* C18 witness: history was asked for a session that was cleared while a chat
\* request on it waits for its generation; another session is stored.
C18_Witness ==
    /\ reply.op = "history"
    /\ reply.session_id \notin DOMAIN chat_sessions
    /\ DOMAIN chat_sessions # {}
    /\ \E k \in Slots : req[k].pc = "generate" /\ req[k].session_id = reply.session_id

\* xs is a prefix of ys
IsPrefix(xs, ys) == Len(xs) <= Len(ys) /\ SubSeq(ys, 1, Len(xs)) = xs

\* C19: in every step that is not a clear of the session, a stored session
\* stays stored and its earlier list is a prefix of its later list: chat,
\* history, list, summarize and feedback remove no session and no message.
C19_AppendOnly ==
    [][\A s \in DOMAIN chat_sessions :
          \/ reply'.op = "clear" /\ reply'.session_id = s /\ reply'.status = "cleared"
          \/ s \in DOMAIN chat_sessions' /\ IsPrefix(chat_sessions[s], chat_sessions'[s])]_vars

\* C19 witness: a session holds two turns, the second appended after the
\* first, and a summary of it was answered.
C19_Witness ==
    /\ reply.op = "summarize" /\ reply.status = "ok"
    /\ reply.session_id \in DOMAIN chat_sessions
    /\ Len(chat_sessions[reply.session_id]) = 4
    /\ chat_sessions[reply.session_id][1].content # chat_sessions[reply.session_id][3].content

----------------------------------------------------------------------------
(* Claims about upload, deletion and the index *)

\* the objects of the index that carry document_id d
ObjectsOf(d) == {u \in DOMAIN index : index[u].document_id = d}

\* the documents whose upload answered success and that were not deleted
LiveDocs == {d \in 1..Len(uploads) : uploads[d].status = "success" /\ d \notin deleted}

\* C6: after any sequence of successful ingestions the index holds exactly one
\* object for every ingested and not deleted chunk (document_id, chunk_index),
\* chunks with identical content included, and no other object.
C6_OneObjectPerChunk ==
    (\A d \in 1..Len(uploads) : uploads[d].status = "success") =>
        \A d \in LiveDocs :
            /\ Cardinality(ObjectsOf(d)) = Len(uploads[d].chunk_indexes)
            /\ \A i \in 1..Len(uploads[d].chunk_indexes) :
                  Cardinality({u \in ObjectsOf(d) :
                      index[u].chunk_index = uploads[d].chunk_indexes[i]}) = 1

\* C7: two documents A and B ingested in either order; after A is deleted,
\* get_document_count equals the number of chunks ingestion produced for B.
C7_CountAfterDelete ==
    \A A, B \in 1..Len(uploads) :
        (/\ Len(uploads) = 2 /\ A # B
         /\ uploads[A].status = "success" /\ uploads[B].status = "success"
         /\ deleted = {A})
        => GetDocumentCount = Len(uploads[B].chunk_indexes)

\* C8: after delete_document(d) returned success no object of the index carries
\* document_id d, and no result of a later search references d.
C8_DeletedGone ==
    /\ \A d \in deleted : ObjectsOf(d) = {}
    /\ \A i \in 1..Len(search_results) : search_results[i].document_id \notin deleted

\* C8 witness: a document of two indexed chunks was deleted, another
\* document is still indexed, and a search has returned it since.
C8_Witness ==
    \E d \in deleted :
        /\ uploads[d].status = "success"
        /\ Len(uploads[d].chunk_indexes) = 2
        /\ DOMAIN index # {}
        /\ search_results # <<>>

\* C9: when add_documents raises partway through the batch the upload reports
\* an error and none of that document's chunks remain in the index.
C9_FailedUploadLeavesNothing ==
    \A d \in 1..Len(uploads) : uploads[d].status = "error" => ObjectsOf(d) = {}

\* C10: a document whose text is empty or whitespace-only ends in the "no text
\* content" error of process_document: zero chunks, add_documents not called,
\* no object in the index; and the chunker returns no chunk for such a text.
C10_BlankTextRejected ==
    \A d \in 1..Len(uploads) :
        Strip(uploads[d].raw) = <<>> =>
            /\ uploads[d].status = "error"
            /\ uploads[d].error = "no_text"
            /\ uploads[d].chunk_indexes = <<>>
            /\ ~uploads[d].add_called
            /\ ObjectsOf(d) = {}
            /\ \A size \in 1..MaxChunkSize, overlap \in 0..MaxOverlap :
                  IntelligentChunkText(uploads[d].raw, size, overlap) = <<>>

\* C10 witness: a whitespace-only file was uploaded after a document that was
\* indexed, and the index still holds exactly that document's objects.
C10_Witness ==
    /\ Len(uploads) = 2
    /\ uploads[1].status = "success"
    /\ uploads[2].raw = <<" ">>
    /\ uploads[2].status = "error"
    /\ DOMAIN index # {}
    /\ \A u \in DOMAIN index : index[u].document_id = 1

\* C11: the chunk_index values of the chunks process_document produces for a
\* document are exactly 0, 1, ..., n-1 in order, n being the number of chunks
\* produced, and the total_chunks recorded with them equals n, whatever chunk
\* sequence the splitter returned.
C11_GaplessChunkIndex ==
    ppc = "done" =>
        \A i \in 1..Len(processed_chunks) :
            /\ processed_chunks[i].chunk_index = i - 1
            /\ processed_chunks[i].total_chunks = Len(processed_chunks)

----------------------------------------------------------------------------
(* Claims about the FAISS database *)

\* the four files exist and agree on the number of vectors
ValidIndexFiles ==
    /\ Missing \notin {disk.index, disk.metadata, disk.texts, disk.config}
    /\ Len(disk.texts) = Len(disk.index)
    /\ Len(disk.metadata) = Len(disk.index)
    /\ disk.config.total_vectors = Len(disk.index)

\* C12: load_index returns True only when the vector index, the texts, the
\* metadata and the config record all exist and agree on the vector count; it
\* returns False when one of them is missing or the counts differ.
C12_LoadOnlyValidIndex ==
    (ret.op = "load_index" /\ ret.ok) => ValidIndexFiles

\* C15: create_faiss_index returns False whenever the embedding collaborator
\* returned a number of vectors different from the number of texts sent, and
\* an index it reports as created holds exactly one vector per text.
C15_EmbeddingCountChecked ==
    ret.op = "create_faiss_index" =>
        /\ (ret.sent > 0 /\ ret.received # ret.sent) => ~ret.ok
        /\ ret.ok => (faiss_index # NoIndex /\ Len(faiss_index) = Len(texts))

\* C16: a search issued while the index or the embedding model is not loaded
\* ends in an explicit failure, not in the empty list a search without match
\* returns.
C16_SearchNotLoadedFails ==
    (ret.op = "search" /\ (faiss_index = NoIndex \/ ~model)) => ~ret.ok

----------------------------------------------------------------------------
(* Claims about the sources of a chat response *)

\* C20: the sources of a successful chat hold one entry per retrieved chunk, in
\* retrieval order; the context of the generation request was built from the
\* same chunks, at most 5; an entry's content preview is the chunk content when
\* it has at most 200 characters and its first 200 characters followed by
\* "..." otherwise.
C20_SourcesMatchRetrieved ==
    spc = "done" =>
        /\ Len(sources) = Len(retrieved)
        /\ Len(context) = Len(retrieved)
        /\ Len(context) <= 5
        /\ \A i \in 1..Len(retrieved) :
              LET c == retrieved[i].content IN
              /\ sources[i].document_id = retrieved[i].document_id
              /\ sources[i].filename = retrieved[i].filename
              /\ sources[i].score = retrieved[i].score
              /\ context[i].filename = retrieved[i].filename
              /\ context[i].content = Strip(c)
              /\ IF Len(c) <= 200
                 THEN sources[i].content_preview = c
                 ELSE /\ Len(sources[i].content_preview) = 203
                      /\ \A j \in 1..200 : sources[i].content_preview[j] = c[j]
                      /\ \A j \in 201..203 : sources[i].content_preview[j] = "."

\* C20 witness: the answer of a request that retrieved four chunks, among them
\* one of exactly 200 characters, given back whole, and one of more, cut.
C20_Witness ==
    /\ spc = "done" /\ Len(sources) = 4
    /\ \E i \in 1..4 : Len(retrieved[i].content) = 200
                       /\ sources[i].content_preview = retrieved[i].content
    /\ \E i \in 1..4 : Len(retrieved[i].content) > 200
                       /\ Len(sources[i].content_preview) = 203

----------------------------------------------------------------------------
(* Properties of the searches, checked under SpecSearch.                     *)

\* the results of the latest search that came from a vector search
VectorSearchAnswered ==
    found.op \in {"faiss_search", "vector_search"} /\ found.ok

\* C21: every result of a vector search, of the FAISS database or of
\* WeaviateClient.vector_search, carries the similarity 1 / (1 + distance) of
\* its distance: a value in (0, 1], smaller for a larger distance.
C21_SimilarityFromDistance ==
    VectorSearchAnswered =>
        /\ \A i \in 1..Len(found.results) :
            LET r == found.results[i]
                distance == corpus[r.document_id].distance
            IN  /\ r.score.num * (1 + distance) = r.score.den
                /\ FracLess(Frac(0, 1), r.score)
                /\ FracLeq(r.score, Frac(1, 1))
        /\ \A i, j \in 1..Len(found.results) :
            corpus[found.results[i].document_id].distance
                < corpus[found.results[j].document_id].distance
            => FracLess(found.results[j].score, found.results[i].score)

\* C21 for the FAISS database alone
C21_FaissSimilarity ==
    found.op = "faiss_search" => C21_SimilarityFromDistance

\* the latest search was a hybrid search that answered
HybridAnswered == found.op = "hybrid" /\ found.ok

\* the document ids of the results, in their order
ResultIds == [i \in 1..Len(found.results) |-> found.results[i].document_id]

C22_VectorSideReached ==
    /\ HybridAnswered /\ found.alpha = Frac(1, 1)
    /\ Len(found.results) = 2
    /\ corpus[ResultIds[1]].distance < corpus[ResultIds[2]].distance
    /\ corpus[ResultIds[1]].bm25 < corpus[ResultIds[2]].bm25

----------------------------------------------------------------------------
(* A second call of the chunker, checked under SpecChunk.                    *)

----------------------------------------------------------------------------
(* Properties of the chat route on its event loop, checked under             *)
(* SpecChatSerial.                                                           *)

C27_FailedChatLeavesStore ==
    \A s \in DOMAIN chat_sessions :
        chat_sessions[s] = <<>> =>
            \E k \in Slots : req[k].pc # "idle" /\ req[k].session_id = s
----------------------------------------------------------------------------
(* Properties of the FAISS database, checked under SpecFaiss.                *)

\* C26: a search of the FAISS database, for every k >= 1 and also for k above
\* the number N of vectors, returns at most min(k, N) results, returns no
\* chunk twice, gives every result the text and the metadata of the vector
\* that matched, and numbers the results 1, 2, ... in order. Stated for a
\* database whose index holds one vector per text.
C26_SearchResultsSound ==
    (/\ ret.op = "search" /\ faiss_index # NoIndex
     /\ Len(faiss_index) = Len(texts) /\ Len(texts) = Len(metadata)
     /\ Len(texts) >= 1) =>
        LET results == ret.results IN
        /\ Len(results) <= Len(faiss_index)
        /\ \A i, j \in 1..Len(results) : i # j => results[i].text # results[j].text
        /\ \A i \in 1..Len(results) :
            /\ results[i].vector \in 0..(Len(faiss_index) - 1)
            /\ results[i].text = texts[results[i].vector + 1]
            /\ results[i].metadata = metadata[results[i].vector + 1]
            /\ results[i].rank = i

\* the index, the texts and the metadata agree: one vector per text, vector i
\* built from text i, one metadata entry per text
Agree(vectors, ts, ms) ==
    /\ Len(vectors) = Len(ts)
    /\ Len(ts) = Len(ms)
    /\ \A i \in 1..Len(vectors) : vectors[i] = Embedding(ts[i])

\* C28: after every sequence of process_text_files, create_faiss_index,
\* save_index and load_index, whenever the in-memory index is set it holds as
\* many vectors as there are texts and metadata entries, vector i built from
\* text i; and every save_index that returned True left files that agree in
\* the same way.
C28_IndexAgreesWithTexts ==
    /\ faiss_index # NoIndex => Agree(faiss_index, texts, metadata)
    /\ (ret.op = "save_index" /\ ret.ok) => Agree(disk.index, disk.texts, disk.metadata)

\* C28 for the embedding collaborator that answers one vector per text and the
\* calls that do not raise: the index still disagrees with the texts
C28_WithoutFaults ==
    [][(/\ C28_IndexAgreesWithTexts
        /\ ret'.op \in {"process_text_files", "create_faiss_index"}
        /\ ret'.ok
        /\ ret'.op = "create_faiss_index" => ret'.received = ret'.sent)
       => C28_IndexAgreesWithTexts']_vars

\* C29: a load_index that returns False leaves the in-memory index, the texts
\* and the metadata as they were before the call.
C29_FailedLoadChangesNothing ==
    [][(ret'.op = "load_index" /\ ~ret'.ok) => UNCHANGED <<faiss_index, texts, metadata>>]_vars
----------------------------------------------------------------------------
(* Properties of the ConversationAgent, checked under SpecAgent.             *)

\* an answer is stored for question number i of the bank
Answered(i) ==
    /\ AllQuestions[i].topic \in DOMAIN knowledge_collected
    /\ AllQuestions[i].id \in DOMAIN knowledge_collected[AllQuestions[i].topic]

\* C30: for every sequence of start_conversation and process_user_message
\* calls, ready_for_report is reported true only when an answer is stored for
\* every question of the bank.
C30_ReadyOnlyWhenAllAnswered ==
    agent_ret.ready_for_report => \A i \in 1..Len(AllQuestions) : Answered(i)

\* C30, second part: a message recognised as a help request stores no answer
\* and leaves the question index where it was
C30_HelpChangesNothing ==
    [][(agent_ret'.op = "process_user_message" /\ agent_ret'.help)
       => UNCHANGED <<knowledge_collected, current_question_index, current_question>>]_vars

\* C30, third part: every other message stores its answer under the question
\* that was current and advances the index by one, while a question is current
C30_AnswerStoredAndAdvanced ==
    [][(/\ agent_ret'.op = "process_user_message" /\ ~agent_ret'.help
        /\ current_question # NoQuestion)
       => /\ current_question_index' = current_question_index + 1
          /\ current_topic \in DOMAIN knowledge_collected'
          /\ AllQuestions[current_question].id \in DOMAIN knowledge_collected'[current_topic]
          /\ \E m \in UserMessages :
                knowledge_collected'[current_topic][AllQuestions[current_question].id]
                    = Strip(m)]_vars
====
